---- MODULE Spec2Model ----
(***************************************************************************)
(* State-machine model of the warix-rxjs data-source pipeline:             *)
(*   - WarixRemoteDataSource (veto gates, debounced fetch, result patch)   *)
(*   - WarixDataPager (page cache, EOF detection, loading counter)         *)
(*   - WarixLocalDataSource (sort, filter and page pipeline, paging clamp) *)
(*   - WarixDataSubject (snapshots and per-key views)                      *)
(*   - WarixDataMap (the cache of derived views)                           *)
(*   - WarixArraySubject (array operations and their change records)       *)
(*   - arrayGroupBy (the grouping of an array by property names)           *)
(***************************************************************************)
EXTENDS Integers, Sequences, FiniteSets, TLC

\* ------------------------------------------------------------------------
\* Bounds of the model
\* ------------------------------------------------------------------------
MaxPage == 1          \* page numbers offered by callers and by the server
MaxRpp == 1           \* rowsPerPage values offered by callers
MaxRequests == 2      \* dataRequest invocations followed in one behaviour
MaxGates == 1         \* accept-callback streams followed in one behaviour
MaxEmits == 2         \* emissions followed per accept-callback stream
PageSize == 2         \* pageSize of the pager
MaxIndex == 4         \* record indexes offered to request(), records served
MaxCalls == 2         \* request() calls followed in one behaviour
MaxLen == 2           \* records of the collections of the local data source
MaxRows == 2          \* rowsPerPage values offered to the local data source
MaxGoTo == 3          \* page numbers offered to the local data source
MaxOps == 3           \* set, patch and deleteKey calls followed on a data subject
MaxObs == 2           \* observables callers hand to the set of a data map
MaxArr == 3           \* items of the arrays of an array subject
MaxItem == 2          \* the items are the numbers 1 .. MaxItem
MaxGiven == 2         \* items handed to one push, unshift, insert, remove or set
MaxChanges == 2       \* emissions followed on an array subject
MaxRecs == 4          \* records the arrays handed to arrayGroupBy are made of
MaxNav == 2           \* pages goToNextPage walks on a remote data source
MaxPending == 2       \* accept-callback streams pending together

\* ------------------------------------------------------------------------
\* JavaScript values
\* ------------------------------------------------------------------------
\* null / undefined (isNil); every number of the model is greater
Null == -99

\* Infinity (a division by null or zero); every number of the model is smaller
Infinity == 999

\* (x || 0), and the coercion Math.min / Math.max apply to null
ToNumber(x) == IF x = Null THEN 0 ELSE x

\* Math.abs
Abs(x) == IF x < 0 THEN 0 - x ELSE x

\* Math.min with JavaScript's coercion of null to 0
MathMin(a, b) == IF ToNumber(a) <= ToNumber(b) THEN ToNumber(a) ELSE ToNumber(b)

\* An object (array, plain object) is a reference and a content: === compares
\* the references, cloneDeep / slice(0) copy the content.
Obj(r, v) == [ref |-> r, val |-> v]

\* ------------------------------------------------------------------------
\* WarixRemoteDataSource
\* ------------------------------------------------------------------------
VARIABLES
    remote,       \* the state$ snapshot of the remote data source
    pageIsMuted,  \* the re-entrancy guard of performDataRequest
    debounce,     \* TRUE while the debounceTime(10) timer is armed
    gates,        \* accept-callback streams subscribed through take(1)
    issued,       \* number of dataRequest invocations so far
    params,       \* the params handed to dataRequest in the latest step (<<>>: no call)
    responses,    \* responses[i]: what the server answers to invocation i
    inflight,     \* invocations whose answer has not arrived yet
    overlaps,     \* pairs <<i, j>> of invocations that were in flight together
    burstPage,    \* the page in the state when the latest mutator call returned
    verdict       \* "rejected" when an accept callback answered false in the latest step

remoteVars == <<remote, pageIsMuted, debounce, gates, issued, params,
                responses, inflight, overlaps, burstPage, verdict>>

\* the variables of WarixDataPager, modelled further down
VARIABLES
    backing,      \* the records the callback serves (record i is the number i)
    pages,        \* the page cache, in the order the pages were pushed
    pager,        \* state$ of the pager
    fetches,      \* callback invocations that have not answered yet
    joins,        \* request() subscriptions that wait for their fetches
    calls,        \* request() calls made so far
    call,         \* output of the step: the request() call made by the step
    eofAt,        \* page of the first short fetch since construction / reset
    stale         \* the fetches that were in flight at the latest reset()

pagerVars == <<backing, pages, pager, fetches, joins, calls, call, eofAt, stale>>

\* the variables of WarixLocalDataSource, modelled further down
VARIABLES
    local,        \* state$ of the local data source
    latest,       \* the latest values of the views combined by workSource$
    workSource,   \* the last value workSource$ emitted
    asked,        \* output of the step: the paging or toggleSort call made
    isStopped     \* complete() was called: state$ delivers no more

localVars == <<local, latest, workSource, asked, isStopped>>

\* the variables of WarixDataSubject, modelled further down
VARIABLES
    subject,      \* the snapshot the subject holds: its identity and its fields
    seen,         \* seen[k]: the last value the view get(k) emitted
    fired,        \* output of the step: the keys whose views emitted
    op            \* output of the step: the call made and the keys it named

subjectVars == <<subject, seen, fired, op>>

\* the variables of WarixDataMap, modelled further down
VARIABLES
    cache,        \* the map: the views registered, by name
    got,          \* output of the step: the lazy getter called and the view returned
    firstGot      \* firstGot[n]: the view the first call of the getter of n returned

mapVars == <<cache, got, firstGot>>

\* the variables of WarixArraySubject, modelled further down
VARIABLES
    array,        \* the array the subject holds: its identity and its items
    details,      \* output of the step: the change record of the operation called
    announced     \* output of the step: the subject and actionDetails$ emitted

arrayVars == <<array, details, announced>>

\* the variables of arrayGroupBy, modelled further down
VARIABLES
    ungrouped,    \* the array handed to arrayGroupBy
    tree          \* output of the step: the property names handed in, the nodes returned

groupVars == <<ungrouped, tree>>

\* the variables of the stateMap wiring of the data sources and operators,
\* modelled further down
VARIABLES
    wired,        \* wired[c]: the names registered in the stateMap of object c
    completed,    \* the objects whose complete() was called
    resolved      \* output of the step: the getter called and whether it threw

wiringVars == <<wired, completed, resolved>>

\* the variable of WarixDataSource, modelled further down
VARIABLES
    sourceState   \* the snapshot the state subject of the data source holds

sourceVars == <<sourceState>>

\* what the actions of one object leave alone
besidesRemote == <<pagerVars, localVars, subjectVars, mapVars, arrayVars, groupVars, wiringVars,
                  sourceVars>>
besidesPager == <<remoteVars, localVars, subjectVars, mapVars, arrayVars, groupVars, wiringVars,
                  sourceVars>>
besidesLocal == <<remoteVars, pagerVars, subjectVars, mapVars, arrayVars, groupVars, wiringVars,
                  sourceVars>>
besidesSubject == <<remoteVars, pagerVars, localVars, mapVars, arrayVars, groupVars, wiringVars,
                  sourceVars>>
besidesMap == <<remoteVars, pagerVars, localVars, subjectVars, arrayVars, groupVars, wiringVars,
                  sourceVars>>
besidesArray == <<remoteVars, pagerVars, localVars, subjectVars, mapVars, groupVars, wiringVars,
                  sourceVars>>
besidesGroup == <<remoteVars, pagerVars, localVars, subjectVars, mapVars, arrayVars, wiringVars,
                  sourceVars>>
besidesWiring == <<remoteVars, pagerVars, localVars, subjectVars, mapVars, arrayVars, groupVars,
                  sourceVars>>
besidesSource == <<remoteVars, pagerVars, localVars, subjectVars, mapVars, arrayVars, groupVars,
                  wiringVars>>

\* the objects callers hand to the setters; "f2" has the content of the
\* initial filter under another reference
FilterObjs == { Obj("f1", {<<"name", "a">>}), Obj("f2", {}) }
GroupObjs == { Obj("g1", <<"kind">>) }
SortObjs == { Obj("s1", <<[property |-> "name", descending |-> FALSE]>>) }
\* paging takes Math.abs of the page: paging(r, -p) is the call paging(r, p)
PageInputs == {Null} \cup { 0 - p : p \in 0 .. MaxPage }
RppInputs == {Null} \cup (0 .. MaxRpp)

ObjectKeys == {"filterValues", "grouping", "sorting"}

\* What the accept callback of a mutation does. The accept*Change fields are
\* plain assignable state that nothing else reads, so whether one is
\* installed at the time of the call is an input of the call: AnsNone is
\* "no callback installed", the others are what an installed callback hands
\* back: a boolean, a replacement value, nil, or a stream that has not
\* emitted yet.
AnsNone == [kind |-> "none"]
AnsBool(b) == [kind |-> "bool", b |-> b]
AnsValue(v) == [kind |-> "value", v |-> v]
AnsNil == [kind |-> "nil"]
AnsLater == [kind |-> "later"]
Emissions(values) ==
    {AnsBool(TRUE), AnsBool(FALSE), AnsNil} \cup {AnsValue(v) : v \in values}
Accepting(values) == {AnsNone}
Answers(values) == {AnsNone, AnsLater} \cup Emissions(values)

ValuesOf(key) ==
    CASE key = "filterValues" -> FilterObjs
      [] key = "grouping" -> GroupObjs
      [] key = "sorting" -> SortObjs
      [] key = "page" -> 0 .. MaxPage

\* constructor: the defaults of the state (no initial partial state given)
RemoteInit ==
    [ allowUnsort |-> TRUE, data |-> <<>>,
      filterValues |-> Obj("f0", {}), grouping |-> Obj("g0", <<>>),
      multiSort |-> TRUE, page |-> Null, rowsPerPage |-> Null,
      sorting |-> Obj("s0", <<>>), totalCount |-> Null ]

\* WarixDataSubject.set
set(s, key, value) == [s EXCEPT ![key] = value]

\* a patch that loses the totalCount key of the result
patchWithoutTotal(s, x) == [s EXCEPT !.data = x.data, !.page = x.page]

\* WarixDataSubject.patch with a fetch result {data, totalCount, page}
patch(s, x) == [s EXCEPT !.data = x.data, !.totalCount = x.totalCount, !.page = x.page]

\* WarixDataSubject.get: pluck(key), distinctUntilChanged() -- does the view
\* of key emit when the snapshot goes from old to new?
distinctUntilChanged(key, old, new) ==
    IF key \in ObjectKeys THEN old[key].ref # new[key].ref ELSE old[key] # new[key]

\* a page view that ignores the guard
pageFilterOpen(muted) == TRUE

\* filter(x => !this.pageIsMuted) on the page view
pageFilter(muted) == ~muted

\* a combined stream without the view of sorting
combineLatestFour(old, new, muted) ==
    \/ distinctUntilChanged("filterValues", old, new)
    \/ distinctUntilChanged("grouping", old, new)
    \/ (distinctUntilChanged("page", old, new) /\ pageFilter(muted))
    \/ distinctUntilChanged("rowsPerPage", old, new)

\* combineLatest([filterValues$, grouping$, page$ (filtered), rowsPerPage$,
\* sorting$]): does the combined stream emit for the snapshot change?
combineLatest(old, new, muted) ==
    \/ distinctUntilChanged("filterValues", old, new)
    \/ distinctUntilChanged("grouping", old, new)
    \/ (distinctUntilChanged("page", old, new) /\ pageFilter(muted))
    \/ distinctUntilChanged("rowsPerPage", old, new)
    \/ distinctUntilChanged("sorting", old, new)

\* a subscription that is never closed
takeEvery(n, emitted) == TRUE

\* take(n): is an emission let through after `emitted` earlier ones?
take(n, emitted) == emitted < n

\* a subscriber that takes every answer but false for an acceptance of the
\* proposal
decideProposed(s, key, newValue, x) ==
    IF x.kind = "bool" /\ ~x.b THEN s ELSE set(s, key, newValue)

\* the subscriber of apply*Change: what the emission x of the accept stream
\* does to the state
decide(s, key, newValue, x) ==
    IF x.kind = "bool" THEN (IF x.b THEN set(s, key, newValue) ELSE s)
    ELSE IF x.kind = "value" THEN set(s, key, x.v)
    ELSE s

\* is newValue === the current value of key?
Same(s, key, newValue) ==
    IF key \in ObjectKeys THEN newValue.ref = s[key].ref ELSE newValue = s[key]

\* apply*Change up to the subscription: the state after the call, the stream
\* left pending (if any), and what the callback answered
applyChange(s, key, newValue, ans) ==
    IF Same(s, key, newValue)
    THEN [st |-> s, gate |-> <<>>, verdict |-> "none"]
    ELSE LET delta == IF ans.kind = "none" THEN AnsBool(TRUE) ELSE ans
         IN  IF delta.kind = "later"
             THEN [st |-> s,
                   gate |-> <<[key |-> key, proposed |-> newValue, emitted |-> 0]>>,
                   verdict |-> "none"]
             ELSE [st |-> decide(s, key, newValue, delta), gate |-> <<>>,
                   verdict |-> IF ans.kind = "bool" /\ ~ans.b THEN "rejected"
                               ELSE "none"]

applyFilterChange(s, newFilter, ans) == applyChange(s, "filterValues", newFilter, ans)
applyGroupChange(s, newGroup, ans) == applyChange(s, "grouping", newGroup, ans)
applyPageChange(s, newPage, ans) == applyChange(s, "page", newPage, ans)
applySortChange(s, newSort, ans) == applyChange(s, "sorting", newSort, ans)

\* params whose skip is the end of the page instead of its start
getRequestParamsOffByOne(s) ==
    [ filterValues |-> s.filterValues.val,
      grouping |-> s.grouping.val,
      page |-> s.page,
      rowsPerPage |-> s.rowsPerPage,
      skip |-> ToNumber(s.rowsPerPage) * (ToNumber(s.page) + 1),
      take |-> ToNumber(s.rowsPerPage),
      sorting |-> s.sorting.val ]

\* getRequestParams
getRequestParams(s) ==
    [ filterValues |-> s.filterValues.val,
      grouping |-> s.grouping.val,
      page |-> s.page,
      rowsPerPage |-> s.rowsPerPage,
      skip |-> ToNumber(s.rowsPerPage) * ToNumber(s.page),
      take |-> ToNumber(s.rowsPerPage),
      sorting |-> s.sorting.val ]

\* the server: invocation i is answered with its own rows and row count and
\* with the requested page or with the first page
DataOf(i) == <<i>>
TotalOf(i) == 3 * (i - 1)
Results(i, p) == { [data |-> DataOf(i), totalCount |-> TotalOf(i), page |-> pg] :
                       pg \in {0, ToNumber(p.page)} }

InitRemote ==
    /\ remote = RemoteInit
    /\ pageIsMuted = FALSE
    /\ debounce = TRUE      \* the five views emit on subscription
    /\ gates = <<>>
    /\ issued = 0
    /\ params = <<>>
    /\ responses = <<>>
    /\ inflight = {}
    /\ overlaps = {}
    /\ burstPage = Null
    /\ verdict = "none"

\* the bookkeeping shared by the mutators: r is the result of apply*Change,
\* mid is the snapshot between the two set calls of paging (or the old one)
MutatedWithin(pending, mid, r) ==
    /\ Len(gates) + Len(r.gate) <= pending
    /\ remote' = r.st
    /\ gates' = gates \o r.gate
    /\ debounce' = (debounce \/ combineLatest(remote, mid, pageIsMuted)
                             \/ combineLatest(mid, r.st, pageIsMuted))
    /\ burstPage' = r.st.page
    /\ verdict' = r.verdict
    /\ params' = <<>>
    /\ UNCHANGED <<pageIsMuted, issued, responses, inflight, overlaps>>
    /\ UNCHANGED besidesRemote

Mutated(mid, r) == MutatedWithin(MaxGates, mid, r)

\* set filterValues(value)
SetFilterValues(value, ans) == Mutated(remote, applyFilterChange(remote, value, ans))

\* set grouping(value)
SetGrouping(value, ans) == Mutated(remote, applyGroupChange(remote, value, ans))

\* set sorting(value)
SetSorting(value, ans) == Mutated(remote, applySortChange(remote, value, ans))

\* paging(rowsPerPage, page); the page and rowsPerPage setters and the goTo*
\* helpers are calls of it
paging(rowsPerPage, page, ans) ==
    LET rpp == Abs(ToNumber(rowsPerPage))
        ppp == Abs(ToNumber(page))
        mid == set(remote, "rowsPerPage", IF rowsPerPage = Null THEN rowsPerPage ELSE rpp)
    IN  Mutated(mid, applyPageChange(mid, ppp, ans))

\* a pending accept stream emits x
GateEmit(i, x) ==
    /\ gates[i].emitted < MaxEmits
    /\ LET g == gates[i]
           st == IF take(1, g.emitted) THEN decide(remote, g.key, g.proposed, x) ELSE remote
       IN  /\ remote' = st
           /\ debounce' = (debounce \/ combineLatest(remote, st, pageIsMuted))
           /\ burstPage' = st.page
    /\ gates' = [gates EXCEPT ![i].emitted = @ + 1]
    /\ verdict' = "none"
    /\ params' = <<>>
    /\ UNCHANGED <<pageIsMuted, issued, responses, inflight, overlaps>>
    /\ UNCHANGED besidesRemote

\* a pending accept stream completes
GateComplete(i) ==
    /\ gates' = SubSeq(gates, 1, i - 1) \o SubSeq(gates, i + 1, Len(gates))
    /\ verdict' = "none"
    /\ params' = <<>>
    /\ UNCHANGED <<remote, pageIsMuted, debounce, issued, responses,
                   inflight, overlaps, burstPage>>
    /\ UNCHANGED besidesRemote

\* the subscriber of performDataRequest: pageIsMuted = true; patch(x);
\* pageIsMuted = false. The snapshot after it and whether the combined
\* stream emitted meanwhile.
applyResult(s, x) ==
    [st |-> patch(s, x), emits |-> combineLatest(s, patch(s, x), TRUE)]

\* the debounce timer fires: performDataRequest. The callback answers with
\* the result x, at once (sync) or through a stream that emits later.
DebounceFire(x, sync) ==
    /\ debounce
    /\ issued < MaxRequests
    /\ issued' = issued + 1
    /\ params' = <<getRequestParams(remote)>>
    /\ responses' = Append(responses, x)
    /\ IF sync
       THEN /\ remote' = applyResult(remote, x).st
            /\ debounce' = applyResult(remote, x).emits
            /\ UNCHANGED <<inflight, overlaps>>
       ELSE /\ inflight' = inflight \cup {issued + 1}
            /\ overlaps' = overlaps \cup {<<i, issued + 1>> : i \in inflight}
            /\ debounce' = FALSE
            /\ UNCHANGED remote
    /\ pageIsMuted' = FALSE
    /\ verdict' = "none"
    /\ UNCHANGED <<gates, burstPage>>
    /\ UNCHANGED besidesRemote

\* the answer to invocation i arrives
FetchResolve(i) ==
    /\ i \in inflight
    /\ inflight' = inflight \ {i}
    /\ remote' = applyResult(remote, responses[i]).st
    /\ debounce' = (debounce \/ applyResult(remote, responses[i]).emits)
    /\ pageIsMuted' = FALSE
    /\ verdict' = "none"
    /\ params' = <<>>
    /\ UNCHANGED <<gates, issued, responses, overlaps, burstPage>>
    /\ UNCHANGED besidesRemote

\* the mutators; callbacks tells whether accept callbacks are installed
Mutators(callbacks) ==
    LET answers(values) == IF callbacks THEN Answers(values) ELSE Accepting(values) IN
    \/ \E v \in FilterObjs \cup {remote.filterValues} :
         \E a \in answers(FilterObjs) : SetFilterValues(v, a)
    \/ \E v \in GroupObjs \cup {remote.grouping} :
         \E a \in answers(GroupObjs) : SetGrouping(v, a)
    \/ \E v \in SortObjs \cup {remote.sorting} :
         \E a \in answers(SortObjs) : SetSorting(v, a)
    \/ \E rpp \in RppInputs, pg \in PageInputs :
         \E a \in answers(0 .. MaxPage) : paging(rpp, pg, a)

\* mutations without accept callbacks (a callback that accepts at once takes
\* the same step, see applyChange), the debounced fetch and its answers
NextRemote ==
    \/ Mutators(FALSE)
    \/ \E x \in Results(issued + 1, getRequestParams(remote)), sync \in BOOLEAN : DebounceFire(x, sync)
    \/ \E i \in inflight : FetchResolve(i)

\* mutations behind accept callbacks that answer at once or through a stream
NextVeto ==
    \/ Mutators(TRUE)
    \/ \E i \in 1 .. Len(gates) : \E x \in Emissions(ValuesOf(gates[i].key)) : GateEmit(i, x)
    \/ \E i \in 1 .. Len(gates) : GateComplete(i)

\* ------------------------------------------------------------------------
\* WarixDataPager
\* ------------------------------------------------------------------------
\* Math.max with JavaScript's coercion of null to 0
MathMax(a, b) == IF ToNumber(a) >= ToNumber(b) THEN ToNumber(a) ELSE ToNumber(b)

\* the records a, a + 1, .., b - 1
RECURSIVE Range(_, _)
Range(a, b) == IF a >= b THEN <<>> ELSE <<a>> \o Range(a + 1, b)

\* Array.prototype.slice(start, end): negative arguments count from the end
slice(s, start, end) ==
    LET len == Len(s)
        from == IF start < 0 THEN MathMax(len + start, 0) ELSE MathMin(start, len)
        to == IF end < 0 THEN MathMax(len + end, 0) ELSE MathMin(end, len)
    IN SubSeq(s, from + 1, to)

\* Array.prototype.slice(start)
sliceFrom(s, start) == slice(s, start, Len(s))

\* a callback that serves the windows of a fixed sequence of records
callback(minIndex, maxIndex) == slice(backing, minIndex, maxIndex)

Backings == { Range(0, n) : n \in 0 .. MaxIndex }

PagerInit ==
    [data |-> <<>>, eofIndex |-> Null, eofPage |-> Null,
     lastRequestMaxIndex |-> Null, lastRequestMinIndex |-> Null,
     loadingCount |-> 0, maxIndex |-> Null, maxPageIndex |-> Null,
     minIndex |-> Null, minPageIndex |-> Null]

\* the getters eof and isLoading
eof(s) == s.eofIndex # Null
isLoading(s) == s.loadingCount > 0

indexToPage(index) == index \div PageSize

\* pages.find(pg => pg.pageIndex === pageIndex): the first match, if any
find(pgs, pageIndex) ==
    LET hits == { i \in 1 .. Len(pgs) : pgs[i].pageIndex = pageIndex }
    IN IF hits = {} THEN <<>>
       ELSE <<pgs[CHOOSE i \in hits : \A j \in hits : i <= j]>>

determineRanges(pgs) ==
    LET pageIndexs == { pgs[i].pageIndex : i \in 1 .. Len(pgs) }
        minPageIndex == CHOOSE m \in pageIndexs : \A q \in pageIndexs : m <= q
        maxPageIndex == CHOOSE m \in pageIndexs : \A q \in pageIndexs : m >= q
    IN [minIndex |-> minPageIndex * PageSize,
        maxIndex |-> (maxPageIndex * PageSize) + Len(find(pgs, maxPageIndex)[1].data),
        minPageIndex |-> minPageIndex,
        maxPageIndex |-> maxPageIndex]

updateStateForPageRequest(s, pgs, pageIndex, dataLength) ==
    LET ranges == determineRanges(pgs)
    IN [s EXCEPT
         !.eofPage = IF s.eofPage # Null THEN s.eofPage
                     ELSE IF dataLength < PageSize THEN MathMin(pageIndex, s.eofPage)
                     ELSE s.eofPage,
         !.eofIndex = IF s.eofIndex # Null THEN s.eofIndex
                      ELSE IF dataLength < PageSize THEN MathMin(s.eofIndex, ranges.maxIndex)
                      ELSE s.eofIndex,
         !.minPageIndex = ranges.minPageIndex,
         !.maxPageIndex = ranges.maxPageIndex,
         !.minIndex = ranges.minIndex,
         !.maxIndex = ranges.maxIndex,
         !.loadingCount = s.loadingCount - 1]

allowPageRequestUpTo(s, pageIndex) ==
    IF s.eofPage = Null THEN TRUE ELSE pageIndex <= s.eofPage

allowPageRequest(s, pageIndex) ==
    IF s.eofPage = Null THEN TRUE ELSE pageIndex < s.eofPage

\* what getPage returns: of([]), of(page.data), or the callback's stream,
\* whose value is not there yet
getPage(s, pgs, pageIndex) ==
    IF ~allowPageRequest(s, pageIndex) THEN [done |-> TRUE, data |-> <<>>]
    ELSE IF find(pgs, pageIndex) # <<>>
         THEN [done |-> TRUE, data |-> find(pgs, pageIndex)[1].data]
         ELSE [done |-> FALSE, data |-> <<>>]

pageDataSlice(data, minIndex, maxIndex, pageIndex) ==
    slice(data, minIndex - (pageIndex * PageSize), maxIndex - (pageIndex * PageSize))

RECURSIVE Flatten(_)
Flatten(arrays) == IF arrays = <<>> THEN <<>> ELSE Head(arrays) \o Flatten(Tail(arrays))

multiPageDataSlice(dataArrays, minIndex, maxIndex, minPageIndex, maxPageIndex) ==
    LET first == dataArrays[1]
        last == dataArrays[Len(dataArrays)]
        middle == Flatten(SubSeq(dataArrays, 2, Len(dataArrays) - 1))
    IN sliceFrom(first, minIndex - (minPageIndex * PageSize))
       \o middle
       \o slice(last, 0, maxIndex - (maxPageIndex * PageSize))

\* the subscriber of request(): the patch made when every page is there
deliver(s, minIndex, maxIndex, values) ==
    LET minPageIndex == indexToPage(MathMin(minIndex, maxIndex))
        maxPageIndex == indexToPage(MathMax(maxIndex, minIndex))
        arrays == [i \in 1 .. Len(values) |-> values[i].data]
    IN [s EXCEPT
         !.data = IF minPageIndex = maxPageIndex
                  THEN pageDataSlice(arrays[1], minIndex, maxIndex, minPageIndex)
                  ELSE multiPageDataSlice(arrays, minIndex, maxIndex, minPageIndex, maxPageIndex),
         !.lastRequestMaxIndex = maxIndex,
         !.lastRequestMinIndex = minIndex]

InitPager(sources) ==
    /\ backing \in sources
    /\ pages = <<>>
    /\ pager = PagerInit
    /\ fetches = {}
    /\ joins = {}
    /\ calls = 0
    /\ call = <<>>
    /\ eofAt = Null
    /\ stale = {}

\* request(minIndex, maxIndex): every getPage of the range runs before the
\* subscription; pages that are cached or refused answer at once
request(minIndex, maxIndex) ==
    LET minPageIndex == indexToPage(MathMin(minIndex, maxIndex))
        maxPageIndex == indexToPage(MathMax(maxIndex, minIndex))
        pagesRequests == [i \in 1 .. (maxPageIndex - minPageIndex + 1) |->
                              getPage(pager, pages, minPageIndex + i - 1)]
        started == { i \in 1 .. Len(pagesRequests) : ~pagesRequests[i].done }
        loading == [pager EXCEPT !.loadingCount = pager.loadingCount + Cardinality(started)]
    IN /\ calls < MaxCalls
       /\ calls' = calls + 1
       /\ call' = <<[minIndex |-> minIndex, maxIndex |-> maxIndex]>>
       /\ fetches' = fetches \cup
              { [req |-> calls + 1, pageIndex |-> minPageIndex + i - 1] : i \in started }
       /\ IF started = {}
          THEN /\ pager' = deliver(loading, minIndex, maxIndex, pagesRequests)
               /\ joins' = joins
          ELSE /\ pager' = loading
               /\ joins' = joins \cup { [id |-> calls + 1, minIndex |-> minIndex,
                                         maxIndex |-> maxIndex, values |-> pagesRequests] }
       /\ UNCHANGED <<backing, pages, eofAt, stale>>
       /\ UNCHANGED besidesPager

requestRecord(recordIndex) == request(recordIndex, recordIndex)

requestPage(pageIndex) == request(pageIndex * PageSize, (pageIndex + 1) * PageSize)

\* the callback of fetch f answers: take(1), the tap of getPage (push the
\* page, update the state), then the subscriber of request() if the fetch
\* was the last one the request waited for
FetchComplete(f) ==
    LET dr == callback(f.pageIndex * PageSize, (f.pageIndex + 1) * PageSize)
        pushed == Append(pages, [data |-> dr, pageIndex |-> f.pageIndex,
                                 startIndex |-> f.pageIndex * PageSize])
        updated == updateStateForPageRequest(pager, pushed, f.pageIndex, Len(dr))
        j == CHOOSE r \in joins : r.id = f.req
        at == f.pageIndex - indexToPage(MathMin(j.minIndex, j.maxIndex)) + 1
        values == [j.values EXCEPT ![at] = [done |-> TRUE, data |-> dr]]
        all == \A i \in 1 .. Len(values) : values[i].done
    IN /\ f \in fetches
       /\ fetches' = fetches \ {f}
       /\ pages' = pushed
       /\ eofAt' = IF eofAt = Null /\ Len(dr) < PageSize THEN f.pageIndex ELSE eofAt
       /\ pager' = IF all THEN deliver(updated, j.minIndex, j.maxIndex, values) ELSE updated
       /\ joins' = IF all THEN joins \ {j} ELSE (joins \ {j}) \cup {[j EXCEPT !.values = values]}
       /\ call' = <<>>
       /\ stale' = stale \ {f}
       /\ UNCHANGED <<backing, calls>>
       /\ UNCHANGED besidesPager

\* the callback of fetch f fails: the error ends the subscription of its
\* request (forkJoin unsubscribes from the other fetches of the request), no
\* tap and no subscriber runs
FetchFail(f) ==
    /\ f \in fetches
    /\ fetches' = { g \in fetches : g.req # f.req }
    /\ joins' = { r \in joins : r.id # f.req }
    /\ call' = <<>>
    /\ stale' = { g \in stale : g.req # f.req }
    /\ UNCHANGED <<backing, pages, pager, calls, eofAt>>
    /\ UNCHANGED besidesPager

resetKeepingEOF ==
    /\ pages' = <<>>
    /\ pager' = [PagerInit EXCEPT !.eofPage = pager.eofPage, !.eofIndex = pager.eofIndex]
    /\ eofAt' = Null
    /\ call' = <<>>
    /\ stale' = fetches
    /\ UNCHANGED <<backing, fetches, joins, calls>>
    /\ UNCHANGED besidesPager

reset ==
    /\ pages' = <<>>
    /\ pager' = PagerInit
    /\ eofAt' = Null
    /\ call' = <<>>
    /\ stale' = fetches
    /\ UNCHANGED <<backing, fetches, joins, calls>>
    /\ UNCHANGED besidesPager

NextPager ==
    \/ \E minIndex \in 0 .. MaxIndex : \E maxIndex \in minIndex .. MaxIndex : request(minIndex, maxIndex)
    \/ \E recordIndex \in 0 .. MaxIndex : requestRecord(recordIndex)
    \/ \E pageIndex \in 0 .. indexToPage(MaxIndex) : requestPage(pageIndex)
    \/ \E f \in fetches : FetchComplete(f)
    \/ \E f \in fetches : FetchFail(f)
    \/ reset

\* ------------------------------------------------------------------------
\* WarixLocalDataSource
\* ------------------------------------------------------------------------
\* Math.ceil(x / y) for x >= 0, y > 0
MathCeil(x, y) == (x + y - 1) \div y

\* record i of the collections handed to the data setter
Rec(i) == [x |-> (2 * i) % 3, y |-> i % 2]

\* the collections callers hand to the data setter: the first n records
LocalDatas == { [i \in 1 .. n |-> Rec(i)] : n \in 0 .. MaxLen }

Properties == {"x", "y"}

\* filtering === null (isNil), written as a filter group of no kind
NilFilter == [property |-> "", operator |-> "nil", operand |-> 0]

\* the filter groups callers hand to the filtering setter: null and a leaf
LocalFilters ==
    { NilFilter, [property |-> "x", operator |-> "gt", operand |-> 1] }

LocalRppInputs == {Null} \cup ((0 - 1) .. MaxRows)
\* Math.abs makes page -p the call of page p: the negative pages are offered
LocalPageInputs == {Null} \cup { 0 - p : p \in 0 .. MaxGoTo }

LocalInit ==
    [allowUnsort |-> TRUE, data |-> <<>>, filtering |-> NilFilter, grouping |-> <<>>,
     multiSort |-> TRUE, page |-> Null, rowsPerPage |-> Null, sorting |-> <<>>]

\* get dataLength
dataLength(s) == Len(s.data)

\* Math.ceil(dataLength / rowsPerPage): a null or zero divisor gives Infinity
calculatePagesCount(length, rowsPerPage) ==
    IF length = 0 THEN 0
    ELSE IF rowsPerPage = 0 THEN 1
    ELSE IF ToNumber(rowsPerPage) = 0 THEN Infinity
    ELSE MathCeil(length, rowsPerPage)

\* get pagesCount
pagesCount(s) == calculatePagesCount(dataLength(s), s.rowsPerPage)

\* the value pagesCount$ holds for the state: map over [dataLength$, rowsPerPage$]
pagesCountLatest(s) == calculatePagesCount(dataLength(s), ToNumber(s.rowsPerPage))

\* the composite comparator of a sorting list: a sorts strictly before b
RECURSIVE Before(_, _, _)
Before(a, b, sorting) ==
    IF sorting = <<>> THEN FALSE
    ELSE LET d == Head(sorting)
         IN IF a[d.property] = b[d.property] THEN Before(a, b, Tail(sorting))
            ELSE IF d.descending THEN a[d.property] > b[d.property]
            ELSE a[d.property] < b[d.property]

\* x put into a sorted array behind every item it does not sort before
RECURSIVE InsertSorted(_, _, _)
InsertSorted(x, sorted, sorting) ==
    IF sorted = <<>> THEN <<x>>
    ELSE IF Before(x, Head(sorted), sorting) THEN <<x>> \o sorted
    ELSE <<Head(sorted)>> \o InsertSorted(x, Tail(sorted), sorting)

\* arrayMultiSort(dt, sorting).newValue: a stable sort by the composite comparator
RECURSIVE arrayMultiSort(_, _)
arrayMultiSort(dt, sorting) ==
    IF dt = <<>> THEN <<>>
    ELSE InsertSorted(dt[Len(dt)], arrayMultiSort(SubSeq(dt, 1, Len(dt) - 1), sorting), sorting)

\* compileGroup(filtering)(item) for a leaf
compileGroup(filtering, item) ==
    IF filtering.operator = "eq" THEN item[filtering.property] = filtering.operand
    ELSE item[filtering.property] > filtering.operand

\* dt.filter(x => compiled(x))
RECURSIVE filterBy(_, _)
filterBy(dt, filtering) ==
    IF dt = <<>> THEN <<>>
    ELSE IF compileGroup(filtering, Head(dt))
         THEN <<Head(dt)>> \o filterBy(Tail(dt), filtering)
         ELSE filterBy(Tail(dt), filtering)

\* the views workSource$ combines, in the order of combineLatest
WorkKeys == <<"data", "rowsPerPage", "page", "filtering", "sorting">>

constructWorkSourceSliceFirst(values) ==
    LET sorted == IF Len(values.sorting) > 0
                  THEN arrayMultiSort(values.data, values.sorting) ELSE values.data
        paged == IF values.rowsPerPage # Null /\ values.page # Null
                 THEN slice(sorted, values.rowsPerPage * values.page,
                            values.rowsPerPage * (values.page + 1))
                 ELSE sorted
    IN IF values.filtering # NilFilter THEN filterBy(paged, values.filtering) ELSE paged

\* the map of constructWorkSource
constructWorkSource(values) ==
    LET sorted == IF Len(values.sorting) > 0
                  THEN arrayMultiSort(values.data, values.sorting) ELSE values.data
        filtered == IF values.filtering # NilFilter
                    THEN filterBy(sorted, values.filtering) ELSE sorted
    IN IF values.rowsPerPage # Null /\ values.page # Null
       THEN slice(filtered, values.rowsPerPage * values.page,
                  values.rowsPerPage * (values.page + 1))
       ELSE filtered

\* the values of the combined views for a state
ViewsOf(s) == [k \in {WorkKeys[i] : i \in 1 .. Len(WorkKeys)} |-> s[k]]

\* state$.next(new): each view whose value changed emits in the order of
\* WorkKeys, and workSource$ emits the map of the latest values after each
RECURSIVE emitFrom(_, _, _, _, _)
emitFrom(i, old, new, lat, ws) ==
    IF i > Len(WorkKeys) THEN [latest |-> lat, workSource |-> ws]
    ELSE LET k == WorkKeys[i]
             moved == [lat EXCEPT ![k] = new[k]]
         IN IF old[k] # new[k]
            THEN emitFrom(i + 1, old, new, moved, constructWorkSource(moved))
            ELSE emitFrom(i + 1, old, new, lat, ws)

\* the values workSource$ emits for state$.next(new), one after the other
RECURSIVE workSourceEmits(_, _, _, _)
workSourceEmits(i, old, new, lat) ==
    IF i > Len(WorkKeys) THEN <<>>
    ELSE LET k == WorkKeys[i]
             moved == [lat EXCEPT ![k] = new[k]]
         IN IF old[k] # new[k]
            THEN <<constructWorkSource(moved)>> \o workSourceEmits(i + 1, old, new, moved)
            ELSE workSourceEmits(i + 1, old, new, lat)

InitLocal ==
    /\ local = LocalInit
    /\ latest = ViewsOf(LocalInit)
    /\ workSource = constructWorkSource(ViewsOf(LocalInit))
    /\ asked = <<>>
    /\ isStopped = FALSE

\* a subject that goes on delivering after complete()
deliversStopped(stopped) == TRUE

\* state$.next(value): the value is stored, and handed to the views unless
\* the subject was completed
delivers(stopped) == ~stopped

\* state$.set / state$.patch to the state new; a is the call recorded
Published(new, a) ==
    /\ local' = new
    /\ LET emitted == emitFrom(1, local, new, latest, workSource)
       IN IF delivers(isStopped)
          THEN /\ latest' = emitted.latest
               /\ workSource' = emitted.workSource
          ELSE UNCHANGED <<latest, workSource>>
    /\ asked' = a
    /\ UNCHANGED isStopped
    /\ UNCHANGED besidesLocal

\* sorting.findIndex(s => s.property === propertyPath), 0 for -1
findIndex(sorting, propertyPath) ==
    LET hits == { i \in 1 .. Len(sorting) : sorting[i].property = propertyPath }
    IN IF hits = {} THEN 0 ELSE CHOOSE i \in hits : \A j \in hits : i <= j

arrayPush(baseArray, item) == Append(baseArray, item)

arraySetAt(baseArray, index, value) == [baseArray EXCEPT ![index] = value]

arrayRemoveAt(baseArray, index) ==
    SubSeq(baseArray, 1, index - 1) \o SubSeq(baseArray, index + 1, Len(baseArray))

\* a sortBy that pushes the definition whatever the list holds
sortByPushing(s, propertyPath, descending) ==
    [s EXCEPT !.sorting = arrayPush(s.sorting, [property |-> propertyPath,
                                                 descending |-> descending])]

sortBy(s, propertyPath, descending) ==
    LET currentIndex == findIndex(s.sorting, propertyPath)
        definition == [property |-> propertyPath, descending |-> descending]
    IN IF currentIndex = 0
       THEN IF s.multiSort
            THEN [s EXCEPT !.sorting = arrayPush(s.sorting, definition)]
            ELSE [s EXCEPT !.sorting = <<definition>>]
       ELSE IF s.sorting[currentIndex].descending # descending
            THEN [s EXCEPT !.sorting = arraySetAt(s.sorting, currentIndex, definition)]
            ELSE s

removeSorting(s, propertyPath) ==
    LET currentIndex == findIndex(s.sorting, propertyPath)
    IN IF currentIndex > 0
       THEN [s EXCEPT !.sorting = arrayRemoveAt(s.sorting, currentIndex)]
       ELSE s

sortByAsc(s, propertyPath) == sortBy(s, propertyPath, FALSE)

sortByDesc(s, propertyPath) == sortBy(s, propertyPath, TRUE)

toggleSortKeeping(s, propertyPath) ==
    LET currentIndex == findIndex(s.sorting, propertyPath)
    IN IF currentIndex = 0 THEN sortByAsc(s, propertyPath)
       ELSE IF s.sorting[currentIndex].descending
            THEN sortByAsc(s, propertyPath)
            ELSE sortByDesc(s, propertyPath)

toggleSort(s, propertyPath) ==
    LET currentIndex == findIndex(s.sorting, propertyPath)
    IN IF currentIndex = 0 THEN sortByAsc(s, propertyPath)
       ELSE LET current == s.sorting[currentIndex]
            IN IF current.descending /\ s.allowUnsort
               THEN removeSorting(s, propertyPath)
               ELSE IF current.descending THEN sortByAsc(s, propertyPath)
                    ELSE sortByDesc(s, propertyPath)

localPagingOldRows(s, rowsPerPage, page) ==
    LET rpp == Abs(ToNumber(rowsPerPage))
        ppp == Abs(ToNumber(page))
        max == calculatePagesCount(dataLength(s), ToNumber(s.rowsPerPage))
    IN [s EXCEPT !.rowsPerPage = IF rowsPerPage = Null THEN rowsPerPage ELSE rpp,
                 !.page = IF page = Null THEN page ELSE IF ppp > max THEN max ELSE ppp]

\* paging(rowsPerPage, page) of the local data source: the patched state
localPaging(s, rowsPerPage, page) ==
    LET rpp == Abs(ToNumber(rowsPerPage))
        ppp == Abs(ToNumber(page))
        max == calculatePagesCount(dataLength(s), rpp)
    IN [s EXCEPT !.rowsPerPage = IF rowsPerPage = Null THEN rowsPerPage ELSE rpp,
                 !.page = IF page = Null THEN page ELSE IF ppp > max THEN max ELSE ppp]

\* set data(value)
LocalSetData(value) == Published(set(local, "data", value), <<>>)

\* set filtering(value)
LocalSetFiltering(value) == Published(set(local, "filtering", value), <<>>)

\* set allowUnsort(value)
LocalSetAllowUnsort(value) == Published(set(local, "allowUnsort", value), <<>>)

\* set multiSort(value)
LocalSetMultiSort(value) == Published(set(local, "multiSort", value), <<>>)

LocalToggleSort(propertyPath) ==
    Published(toggleSort(local, propertyPath),
              <<[op |-> "toggleSort", page |-> Null, property |-> propertyPath]>>)

LocalSortByAsc(propertyPath) == Published(sortByAsc(local, propertyPath), <<>>)

LocalSortByDesc(propertyPath) == Published(sortByDesc(local, propertyPath), <<>>)

LocalRemoveSorting(propertyPath) == Published(removeSorting(local, propertyPath), <<>>)

\* clearSorting()
LocalClearSorting == Published(set(local, "sorting", <<>>), <<>>)

LocalPaging(rowsPerPage, page) ==
    Published(localPaging(local, rowsPerPage, page),
              <<[op |-> "paging", page |-> page, property |-> ""]>>)

\* addGrouping(propertyPath)
LocalAddGrouping(propertyPath) ==
    Published(IF \E i \in 1 .. Len(local.grouping) : local.grouping[i] = propertyPath
              THEN local
              ELSE set(local, "grouping", arrayPush(local.grouping, propertyPath)),
              <<>>)

\* complete(): stateMap.complete(); state$.complete()
LocalComplete ==
    /\ isStopped' = TRUE
    /\ asked' = <<>>
    /\ UNCHANGED <<local, latest, workSource>>
    /\ UNCHANGED besidesLocal

\* set page(value)
LocalSetPage(value) == LocalPaging(local.rowsPerPage, value)

\* set rowsPerPage(value)
LocalSetRowsPerPage(value) == LocalPaging(value, local.page)

NextLocal ==
    \/ \E value \in LocalDatas : LocalSetData(value)
    \/ \E value \in LocalFilters : LocalSetFiltering(value)
    \/ \E value \in BOOLEAN : LocalSetAllowUnsort(value)
    \/ \E value \in BOOLEAN : LocalSetMultiSort(value)
    \/ \E propertyPath \in Properties : LocalToggleSort(propertyPath)
    \/ \E propertyPath \in Properties : LocalSortByAsc(propertyPath)
    \/ \E propertyPath \in Properties : LocalSortByDesc(propertyPath)
    \/ \E propertyPath \in Properties : LocalRemoveSorting(propertyPath)
    \/ LocalClearSorting
    \/ \E rowsPerPage \in LocalRppInputs, page \in LocalPageInputs : LocalPaging(rowsPerPage, page)
    \/ \E value \in LocalPageInputs : LocalSetPage(value)
    \/ \E value \in LocalRppInputs : LocalSetRowsPerPage(value)

\* the collections and pages handed to a data source that is torn down
TeardownDatas == { <<>>, [i \in 1 .. MaxLen |-> Rec(i)] }
TeardownPages == { 0, 0 - 1 }

\* a data source that is completed at some point, and again, among calls of
\* the data setter, the filtering setter, toggleSort, addGrouping and paging
NextTeardown ==
    \/ \E value \in TeardownDatas : LocalSetData(value)
    \/ \E value \in LocalFilters : LocalSetFiltering(value)
    \/ LocalToggleSort("x")
    \/ LocalAddGrouping("x")
    \/ \E page \in TeardownPages : LocalPaging(1, page)
    \/ LocalComplete

\* ------------------------------------------------------------------------
\* WarixDataSubject
\* ------------------------------------------------------------------------
\* a number or string: equal by content
Primitive(v) == Obj(0, v)

\* the value pluck reads under a key the snapshot does not hold
Undefined == Obj(0, Null)

Keys == {"a", "b"}

\* the values callers store: two primitives and two objects of equal content
SubjectValues == { Primitive(1), Primitive(2), Obj(1, 7), Obj(2, 7) }

\* the values the subject is constructed with
SubjectInitials == { Primitive(1), Obj(1, 7) }

\* the partial objects callers hand to patch: any keys, the empty one included
Partials == UNION { [ks -> SubjectValues] : ks \in SUBSET Keys }

\* pluck(key)
pluck(fields, key) == IF key \in DOMAIN fields THEN fields[key] ELSE Undefined

\* Object.assign(empty(), this.value, value)
assign(fields, value) ==
    [k \in (DOMAIN fields) \cup (DOMAIN value) |->
        IF k \in DOMAIN value THEN value[k] ELSE fields[k]]

\* cloneDeep of a value: a primitive is itself, an object is a new reference
\* of equal content (the same new reference for the same old one)
cloneDeep(v) == IF v.ref = 0 THEN v ELSE Obj(v.ref + Cardinality(SubjectValues), v.val)

\* cloneDeep(this.getValue()); delete nxt[key]
deleteKey(fields, key) == [k \in (DOMAIN fields) \ {key} |-> cloneDeep(fields[k])]

\* a view that has no distinctUntilChanged
getEvery(last, fields, key) == TRUE

\* get(key): pluck(key), distinctUntilChanged() -- does the view, whose last
\* emission was last, emit for the snapshot?
get(last, fields, key) == pluck(fields, key) # last

InitSubject ==
    /\ subject \in { [id |-> 0, fields |-> f] : f \in [Keys -> SubjectInitials] }
    /\ seen = [k \in Keys |-> subject.fields[k]]
    /\ fired = Keys
    /\ op = <<>>

\* this.next(nxt): the snapshot is replaced and every view looks at it
next(nxt, name, value) ==
    /\ subject.id < MaxOps
    /\ subject' = [id |-> subject.id + 1, fields |-> nxt]
    /\ fired' = { k \in Keys : get(seen[k], nxt, k) }
    /\ seen' = [k \in Keys |-> IF get(seen[k], nxt, k) THEN pluck(nxt, k) ELSE seen[k]]
    /\ op' = <<[name |-> name, value |-> value]>>
    /\ UNCHANGED besidesSubject

\* set(key, value)
SubjectSet(key, value) ==
    next(assign(subject.fields, [k \in {key} |-> value]), "set", [k \in {key} |-> value])

\* patch(value)
SubjectPatch(value) == next(assign(subject.fields, value), "patch", value)

\* deleteKey(key)
SubjectDeleteKey(key) ==
    next(deleteKey(subject.fields, key), "deleteKey", [k \in {key} |-> Undefined])

NextSubject ==
    \/ \E key \in Keys, value \in SubjectValues : SubjectSet(key, value)
    \/ \E value \in Partials : SubjectPatch(value)
    \/ \E key \in Keys : SubjectDeleteKey(key)

\* ------------------------------------------------------------------------
\* WarixDataMap
\* ------------------------------------------------------------------------
\* the lazily built views of the local data source and the views each one is
\* built from (pagesCount$ reads dataLength$, inLastPage$ reads pagesCount$)
LazyViews == <<"dataLength", "pagesCount", "inLastPage">>

Names == { LazyViews[i] : i \in 1 .. Len(LazyViews) }

\* the observables callers hand to set
Observables == 1 .. MaxObs

\* the observable the getter of the i-th lazy view constructs
Constructed(i) == MaxObs + i

\* has(key)
has(map, key) == key \in DOMAIN map

\* a set that replaces a registered view
setOverwriting(map, key, value) ==
    [k \in (DOMAIN map) \cup {key} |-> IF k = key THEN value ELSE map[k]]

\* set(key, value): registers the view if the key is absent
mapSet(map, key, value) ==
    IF ~has(map, key)
    THEN [k \in (DOMAIN map) \cup {key} |-> IF k = key THEN value ELSE map[k]]
    ELSE map

\* the getter of the i-th lazy view: if (!has(name)) set(name, <the view
\* built from the getter of the view before it>); the map after the call
RECURSIVE lazy(_, _)
lazy(map, i) ==
    IF has(map, LazyViews[i]) THEN map
    ELSE LET below == IF i > 1 THEN lazy(map, i - 1) ELSE map
         IN mapSet(below, LazyViews[i], Constructed(i))

InitMap ==
    /\ cache = <<>>
    /\ got = <<>>
    /\ firstGot = [n \in Names |-> Null]

\* stateMap.set(key, value) with an observable of the caller
MapSet(key, value) ==
    /\ cache' = mapSet(cache, key, value)
    /\ got' = <<>>
    /\ UNCHANGED firstGot
    /\ UNCHANGED besidesMap

\* the getter of a lazy view: ...; return stateMap.get(name)
LazyView(i) ==
    /\ cache' = lazy(cache, i)
    /\ got' = <<[name |-> LazyViews[i], view |-> cache'[LazyViews[i]]]>>
    /\ firstGot' = IF firstGot[LazyViews[i]] = Null
                   THEN [firstGot EXCEPT ![LazyViews[i]] = cache'[LazyViews[i]]]
                   ELSE firstGot
    /\ UNCHANGED besidesMap

NextMap ==
    \/ \E key \in Names, value \in Observables : MapSet(key, value)
    \/ \E i \in 1 .. Len(LazyViews) : LazyView(i)

\* ------------------------------------------------------------------------
\* Array operations and WarixArraySubject
\* ------------------------------------------------------------------------
\* the items arrays hold
Items == 1 .. MaxItem

\* the arrays of at most n items
ArraysUpTo(n) == UNION { [1 .. k -> Items] : k \in 0 .. n }

\* baseArray.map((item, index) => ({ oldIndex: index, newIndex: index, item }))
mapped(baseArray) ==
    [i \in 1 .. Len(baseArray) |->
        [oldIndex |-> i - 1, newIndex |-> i - 1, item |-> baseArray[i]]]

\* forEach((x, index) => x.newIndex = index)
reindexed(entries) ==
    [i \in 1 .. Len(entries) |-> [entries[i] EXCEPT !.newIndex = i - 1]]

\* map(x => x.item)
itemsOf(entries) == [i \in 1 .. Len(entries) |-> entries[i].item]

\* filter(x => x.oldIndex !== x.newIndex)
shiftedOf(entries) ==
    LET differs(x) == x.oldIndex # x.newIndex
    IN SelectSeq(entries, differs)

\* items.map((item, index) => ({ item, index: index + offset }))
indexed(items, offset) ==
    [i \in 1 .. Len(items) |-> [index |-> i - 1 + offset, item |-> items[i]]]

\* the result of an operation; sameRef: newValue is the array oldValue
change(baseArray, newValue, addedItems, removedItems, shiftedItems) ==
    [oldValue |-> baseArray, newValue |-> newValue, sameRef |-> FALSE,
     addedItems |-> addedItems, removedItems |-> removedItems,
     shiftedItems |-> shiftedItems]

fnNoAction(baseArray) ==
    [oldValue |-> baseArray, newValue |-> baseArray, sameRef |-> TRUE,
     addedItems |-> <<>>, removedItems |-> <<>>, shiftedItems |-> <<>>]

arrayPushItems(baseArray, items) ==
    IF Len(items) = 0 THEN fnNoAction(baseArray)
    ELSE change(baseArray, baseArray \o items, indexed(items, Len(baseArray)), <<>>, <<>>)

arrayPop(baseArray) ==
    IF Len(baseArray) = 0 THEN fnNoAction(baseArray)
    ELSE change(baseArray, SubSeq(baseArray, 1, Len(baseArray) - 1), <<>>,
                <<[index |-> Len(baseArray) - 1, item |-> baseArray[Len(baseArray)]]>>, <<>>)

arrayShift(baseArray) ==
    IF Len(baseArray) = 0 THEN fnNoAction(baseArray)
    ELSE LET newValue == Tail(baseArray)
         IN change(baseArray, newValue, <<>>, <<[index |-> 0, item |-> baseArray[1]]>>,
                   [i \in 1 .. Len(newValue) |->
                       [oldIndex |-> (i - 1) - 1, newIndex |-> i - 1, item |-> newValue[i]]])

arrayUnshift(baseArray, items) ==
    IF Len(items) = 0 THEN fnNoAction(baseArray)
    ELSE change(baseArray, items \o baseArray, indexed(items, 0), <<>>,
                [i \in 1 .. Len(baseArray) |->
                    [oldIndex |-> i - 1, newIndex |-> i - 1 + Len(items), item |-> baseArray[i]]])

\* a splice that counts the items handed in twice
arraySpliceTwice(baseArray, start, deleteCount, items) ==
    change(baseArray, items \o baseArray, indexed(items \o items, 0), <<>>, <<>>)

\* Array.prototype.splice on the mapped clone: start counts from the end when
\* negative, deleteCount is clamped to what is there
arraySplice(baseArray, start, deleteCount, items) ==
    LET len == Len(baseArray)
        from == IF start < 0 THEN MathMax(len + start, 0) ELSE MathMin(start, len)
        count == MathMin(MathMax(deleteCount, 0), len - from)
        all == mapped(baseArray)
        fresh == [i \in 1 .. Len(items) |->
                     [oldIndex |-> 0 - 1, newIndex |-> 0 - 1, item |-> items[i]]]
        removedClone == SubSeq(all, from + 1, from + count)
        mappedClone == reindexed(SubSeq(all, 1, from) \o fresh
                                 \o SubSeq(all, from + count + 1, len))
        isNew(x) == x.oldIndex = 0 - 1
        isOld(x) == x.oldIndex # x.newIndex /\ x.oldIndex > 0 - 1
        added == SelectSeq(mappedClone, isNew)
    IN change(baseArray, itemsOf(mappedClone),
              [i \in 1 .. Len(added) |-> [index |-> added[i].newIndex, item |-> added[i].item]],
              [i \in 1 .. Len(removedClone) |->
                  [index |-> removedClone[i].oldIndex, item |-> removedClone[i].item]],
              SelectSeq(mappedClone, isOld))

arrayInsert(baseArray, index, items) ==
    IF Len(items) = 0 THEN fnNoAction(baseArray)
    ELSE arraySplice(baseArray, index, 0, items)

arrayRemoveAtCount(baseArray, index, removeCount) ==
    IF removeCount <= 0 THEN fnNoAction(baseArray)
    ELSE arraySplice(baseArray, index, removeCount, <<>>)

\* arrayRemoveWhere with a condition that holds at the 0-based indexes of
\* hits
arrayRemoveWhere(baseArray, hits) ==
    LET all == mapped(baseArray)
        stays(x) == x.oldIndex \notin hits
        goes(x) == x.oldIndex \in hits
        kept == reindexed(SelectSeq(all, stays))
        gone == SelectSeq(all, goes)
    IN change(baseArray, itemsOf(kept), <<>>,
              [i \in 1 .. Len(gone) |-> [index |-> gone[i].oldIndex, item |-> gone[i].item]],
              shiftedOf(kept))

\* i => items.indexOf(i) > -1
arrayRemove(baseArray, items) ==
    arrayRemoveWhere(baseArray,
        { i \in 0 .. Len(baseArray) - 1 :
              \E j \in 1 .. Len(items) : items[j] = baseArray[i + 1] })

\* entries put in order of their items, equal items in their old order
RECURSIVE sortedEntries(_)
sortedEntries(entries) ==
    IF entries = <<>> THEN <<>>
    ELSE LET x == entries[Len(entries)]
             before == sortedEntries(SubSeq(entries, 1, Len(entries) - 1))
             notAfter(y) == y.item <= x.item
             after(y) == y.item > x.item
         IN SelectSeq(before, notAfter) \o <<x>> \o SelectSeq(before, after)

\* arraySort with the default comparison: newIndex is never set after the sort
arraySort(baseArray) ==
    LET entries == sortedEntries(mapped(baseArray))
    IN change(baseArray, itemsOf(entries), <<>>, <<>>, shiftedOf(entries))

arraySet(baseArray, newValue) ==
    change(baseArray, newValue, indexed(newValue, 0), indexed(baseArray, 0), <<>>)

arraySetAtIndex(baseArray, index, value) == arraySplice(baseArray, index, 1, <<value>>)

arrayRevese(baseArray) ==
    LET all == mapped(baseArray)
        newValue == reindexed([i \in 1 .. Len(all) |-> all[Len(all) + 1 - i]])
    IN change(baseArray, itemsOf(newValue), <<>>, <<>>, shiftedOf(newValue))

\* the sequences of values of index fnShuffle can draw on n items:
\* Math.floor(Math.random() * counter) while counter runs from n down to 1
RandomIndicesOfLength(n) == [1 .. n -> 0 .. n - 1]

RandomIndices(n) == { f \in [1 .. n -> 0 .. n - 1] : \A k \in 1 .. n : f[k] <= n - k }

\* fnShuffle from the value counter of its loop counter on: indices[k] is the
\* index drawn in the k-th round
RECURSIVE fnShuffle(_, _, _)
fnShuffle(entries, indices, counter) ==
    IF counter > 0
    THEN LET index == indices[Len(entries) - counter + 1]
         IN fnShuffle([entries EXCEPT ![counter] = entries[index + 1],
                                      ![index + 1] = entries[counter]],
                      indices, counter - 1)
    ELSE entries

\* arrayShuffle when Math.random() makes fnShuffle draw indices
arrayShuffle(baseArray, indices) ==
    LET entries == reindexed(fnShuffle(mapped(baseArray), indices, Len(baseArray)))
    IN change(baseArray, itemsOf(entries), <<>>, <<>>, shiftedOf(entries))

\* an arrayDistinct that keeps the last of the equal items
arrayDistinctLast(baseArray) ==
    arrayRemoveWhere(baseArray,
        { i \in 0 .. Len(baseArray) - 1 :
              \E j \in i + 2 .. Len(baseArray) : baseArray[j] = baseArray[i + 1] })

\* (value, index, array) => array.indexOf(value) !== index
arrayDistinct(baseArray) ==
    arrayRemoveWhere(baseArray,
        { i \in 0 .. Len(baseArray) - 1 :
              \E j \in 1 .. i : baseArray[j] = baseArray[i + 1] })

\* the orders fnShuffle can leave n entries in
\* the permutations of n positions
Orders(n) == { f \in [1 .. n -> 1 .. n] : \A i, j \in 1 .. n : f[i] = f[j] => i = j }

InitArray(arrays) ==
    /\ array \in { Obj(0, a) : a \in arrays }
    /\ details = <<>>
    /\ announced = FALSE

\* processArrayResult: the subject takes the new array and emits it and the
\* details unless the operation handed the old array back (name and given,
\* the method called and the number of items or the count handed to it, are
\* kept with the record of the step)
processArrayResult(name, given, r) ==
    /\ array.ref < MaxChanges
    /\ Len(r.newValue) <= MaxArr
    /\ array' = IF r.sameRef THEN array ELSE Obj(array.ref + 1, r.newValue)
    /\ announced' = ~r.sameRef
    /\ details' = <<[name |-> name, given |-> given] @@ r>>
    /\ UNCHANGED besidesArray

push(items) == processArrayResult("push", Len(items), arrayPushItems(array.val, items))
pop == processArrayResult("pop", 0, arrayPop(array.val))
shift == processArrayResult("shift", 0, arrayShift(array.val))
unshift(items) == processArrayResult("unshift", Len(items), arrayUnshift(array.val, items))
splice(start, deleteCount, items) ==
    processArrayResult("splice", Len(items), arraySplice(array.val, start, deleteCount, items))
insert(index, items) == processArrayResult("insert", Len(items), arrayInsert(array.val, index, items))
removeAt(index, deleteCount) ==
    processArrayResult("removeAt", deleteCount, arrayRemoveAtCount(array.val, index, deleteCount))
removeWhere(hits) == processArrayResult("removeWhere", 0, arrayRemoveWhere(array.val, hits))
remove(items) == processArrayResult("remove", Len(items), arrayRemove(array.val, items))
sort == processArrayResult("sort", 0, arraySort(array.val))
setArray(newValue) == processArrayResult("set", Len(newValue), arraySet(array.val, newValue))
setAt(index, value) == processArrayResult("setAt", 1, arraySetAtIndex(array.val, index, value))
reverse == processArrayResult("reverse", 0, arrayRevese(array.val))
shuffle(indices) == processArrayResult("shuffle", 0, arrayShuffle(array.val, indices))
distinct == processArrayResult("distinct", 0, arrayDistinct(array.val))

\* the indexes and counts handed to splice, insert, removeAt and setAt
Positions == (0 - 1) .. MaxArr

NextArray ==
    \/ \E items \in ArraysUpTo(MaxGiven) : push(items)
    \/ pop
    \/ shift
    \/ \E items \in ArraysUpTo(MaxGiven) : unshift(items)
    \/ \E start \in Positions, deleteCount \in Positions, items \in ArraysUpTo(1) :
          splice(start, deleteCount, items)
    \/ \E index \in Positions, items \in ArraysUpTo(MaxGiven) : insert(index, items)
    \/ \E index \in Positions, deleteCount \in Positions : removeAt(index, deleteCount)
    \/ \E hits \in SUBSET (0 .. MaxArr - 1) : removeWhere(hits)
    \/ \E items \in ArraysUpTo(MaxGiven) : remove(items)
    \/ sort
    \/ \E newValue \in ArraysUpTo(MaxGiven) : setArray(newValue)
    \/ \E index \in Positions, value \in Items : setAt(index, value)
    \/ reverse
    \/ \E indices \in RandomIndices(Len(array.val)) : shuffle(indices)
    \/ distinct

\* ------------------------------------------------------------------------
\* arrayGroupBy
\* ------------------------------------------------------------------------
\* the arrays handed to arrayGroupBy: at most MaxArr of the first MaxRecs
\* records, in any order, a record any number of times
GroupArrays ==
    UNION { [1 .. k -> { Rec(i) : i \in 1 .. MaxRecs }] : k \in 0 .. MaxArr }

\* the lists of property names handed to arrayGroupBy
GroupNames == { <<>>, <<"x">>, <<"y">>, <<"x", "y">>, <<"y", "x">> }

\* i[prop]: undefined for a property the item does not have
valueAt(item, prop) == IF prop \in DOMAIN item THEN item[prop] ELSE Undefined

RECURSIVE fnApplyGrouping(_, _, _)
fnApplyGrouping(ax, prop, nextProps) ==
    LET distinctValues == arrayDistinct([i \in 1 .. Len(ax) |-> valueAt(ax[i], prop)]).newValue
    IN [k \in 1 .. Len(distinctValues) |->
           LET applies(i) == valueAt(i, prop) = distinctValues[k]
               applicableItems == SelectSeq(ax, applies)
           IN [groupedBy |-> prop,
               groupedByValue |-> distinctValues[k],
               items |-> IF Len(nextProps) = 0 THEN applicableItems
                         ELSE fnApplyGrouping(applicableItems, Head(nextProps), Tail(nextProps))]]

arrayGroupBy(baseArray, groupByPropertiesNames) ==
    IF Len(baseArray) = 0 \/ Len(groupByPropertiesNames) = 0
    THEN <<[groupedBy |-> Null, groupedByValue |-> Null, items |-> baseArray]>>
    ELSE fnApplyGrouping(baseArray, Head(groupByPropertiesNames), Tail(groupByPropertiesNames))

InitGroup(arrays) ==
    /\ ungrouped \in arrays
    /\ tree = <<>>

\* a call of arrayGroupBy on the array
GroupBy(groupByPropertiesNames) ==
    /\ tree' = <<[names |-> groupByPropertiesNames,
                  nodes |-> arrayGroupBy(ungrouped, groupByPropertiesNames)]>>
    /\ UNCHANGED ungrouped
    /\ UNCHANGED besidesGroup

NextGroup == \E groupByPropertiesNames \in GroupNames : GroupBy(groupByPropertiesNames)

\* ------------------------------------------------------------------------
\* WarixRemoteDataSource: sortByAsc, addGrouping and addFilter behind accept
\* callbacks that answer later
\* ------------------------------------------------------------------------
\* the properties and filter keys callers name
RaceNames == {"x", "y"}

\* the identities of the arrays and objects the mutators build
RacePool == {"n1", "n2", "n3", "n4"}

\* a new array or object: an identity that neither the state nor a pending
\* proposal holds under the key
fresh(key, val) ==
    LET held == {remote[key].ref} \cup
                { gates[i].proposed.ref : i \in { j \in 1 .. Len(gates) : gates[j].key = key } }
    IN Obj(CHOOSE n \in RacePool : n \notin held, val)

\* sortByAsc(propertyPath): sortBy computes the list from this.sorting and
\* hands it to the sorting setter, unless the entry is there already
RemoteSortByAsc(propertyPath, ans) ==
    LET nxt == sortByAsc([sorting |-> remote.sorting.val, multiSort |-> remote.multiSort],
                         propertyPath).sorting
    IN IF nxt = remote.sorting.val
       THEN MutatedWithin(MaxPending, remote, [st |-> remote, gate |-> <<>>, verdict |-> "none"])
       ELSE MutatedWithin(MaxPending, remote, applySortChange(remote, fresh("sorting", nxt), ans))

\* addGrouping(propertyPath)
RemoteAddGrouping(propertyPath, ans) ==
    IF \E k \in 1 .. Len(remote.grouping.val) : remote.grouping.val[k] = propertyPath
    THEN MutatedWithin(MaxPending, remote, [st |-> remote, gate |-> <<>>, verdict |-> "none"])
    ELSE MutatedWithin(MaxPending, remote,
             applyGroupChange(remote,
                 fresh("grouping", arrayPush(remote.grouping.val, propertyPath)), ans))

\* addFilter(key, value): Object.assign({}, this.filterValues, { [key]: value })
RemoteAddFilter(key, value, ans) ==
    MutatedWithin(MaxPending, remote,
        applyFilterChange(remote,
            fresh("filterValues",
                  { p \in remote.filterValues.val : p[1] # key } \cup {<<key, value>>}), ans))

\* the three mutators behind callbacks that answer through a stream, and the
\* streams, which answer true or false
NextRace ==
    \/ \E p \in RaceNames : RemoteSortByAsc(p, AnsLater)
    \/ \E p \in RaceNames : RemoteAddGrouping(p, AnsLater)
    \/ \E p \in RaceNames : RemoteAddFilter(p, "a", AnsLater)
    \/ \E i \in 1 .. Len(gates) : \E x \in {AnsBool(TRUE), AnsBool(FALSE)} : GateEmit(i, x)

\* ------------------------------------------------------------------------
\* Page navigation of the two data sources
\* ------------------------------------------------------------------------
\* x - 1 and x + 1 in JavaScript's numbers: Infinity stays Infinity
minusOne(x) == IF x = Infinity THEN Infinity ELSE x - 1

plusOne(x) == IF x = Infinity THEN Infinity ELSE x + 1

\* get pagesCount of the remote data source
remotePagesCount(s) == calculatePagesCount(ToNumber(s.totalCount), s.rowsPerPage)

\* get inLastPage of the remote data source
remoteInLastPage(s) == minusOne(remotePagesCount(s)) = ToNumber(s.page)

\* get inLastPage of the local data source
localInLastPage(s) == minusOne(pagesCount(s)) = ToNumber(s.page)

\* goToFirstPage()
RemoteGoToFirstPage == paging(remote.rowsPerPage, 0, AnsNone)

\* goToLastPage()
RemoteGoToLastPage ==
    paging(remote.rowsPerPage, minusOne(remotePagesCount(remote)), AnsNone)

\* goToNextPage(): goToPage(page + 1) unless inLastPage
RemoteGoToNextPage ==
    /\ ToNumber(remote.page) < MaxNav
    /\ IF ~remoteInLastPage(remote)
       THEN paging(remote.rowsPerPage, plusOne(ToNumber(remote.page)), AnsNone)
       ELSE UNCHANGED remoteVars /\ UNCHANGED besidesRemote

\* goToPreviousPage(): goToPage(page - 1) when page > 0
RemoteGoToPreviousPage ==
    IF ToNumber(remote.page) > 0
    THEN paging(remote.rowsPerPage, minusOne(remote.page), AnsNone)
    ELSE UNCHANGED remoteVars /\ UNCHANGED besidesRemote

\* set rowsPerPage(value) of the remote data source
RemoteSetRowsPerPage(value) == paging(value, remote.page, AnsNone)

\* goToFirstPage()
LocalGoToFirstPage == LocalPaging(local.rowsPerPage, 0)

\* goToLastPage()
LocalGoToLastPage == LocalPaging(local.rowsPerPage, minusOne(pagesCount(local)))

\* goToNextPage()
LocalGoToNextPage ==
    IF ~localInLastPage(local)
    THEN LocalPaging(local.rowsPerPage, plusOne(ToNumber(local.page)))
    ELSE UNCHANGED localVars /\ UNCHANGED besidesLocal

\* goToPreviousPage()
LocalGoToPreviousPage ==
    IF ToNumber(local.page) > 0
    THEN LocalPaging(local.rowsPerPage, minusOne(local.page))
    ELSE UNCHANGED localVars /\ UNCHANGED besidesLocal

\* the collections handed to the local data source that is navigated
NavDatas == { <<>>, [i \in 1 .. MaxLen |-> Rec(i)] }

\* navigation of both data sources, between fetches, new collections and
\* new page sizes
NextNav ==
    \/ RemoteGoToFirstPage
    \/ RemoteGoToLastPage
    \/ RemoteGoToNextPage
    \/ RemoteGoToPreviousPage
    \/ \E value \in RppInputs : RemoteSetRowsPerPage(value)
    \/ \E x \in Results(issued + 1, getRequestParams(remote)) : DebounceFire(x, TRUE)
    \/ LocalGoToFirstPage
    \/ LocalGoToLastPage
    \/ LocalGoToNextPage
    \/ LocalGoToPreviousPage
    \/ \E value \in NavDatas : LocalSetData(value)
    \/ \E value \in LocalRppInputs : LocalSetRowsPerPage(value)

\* ------------------------------------------------------------------------
\* The stateMap wiring of the data sources and of the operators
\* ------------------------------------------------------------------------
\* the objects that keep their views in a stateMap
Owners == {"local", "remote", "pager", "filter", "sort"}

\* the keys of the initial state$ snapshot, which liftFromDataSubject registers
StateKeys(owner) ==
    CASE owner = "local" ->
           {"allowUnsort", "data", "filtering", "grouping", "multiSort", "page",
            "rowsPerPage", "sorting"}
      [] owner = "remote" ->
           {"allowUnsort", "data", "dataRequest", "filterValues", "grouping",
            "multiSort", "page", "rowsPerPage", "sorting", "totalCount"}
      [] owner = "pager" -> {"dataLength", "page", "rowsPerPage"}
      [] owner = "filter" -> {"filter", "involvedFields"}
      [] owner = "sort" -> {"unsort", "multiSort", "sorting"}

\* the getters that register their view on the first call,
\* if (!stateMap.has(name)) stateMap.set(name, ...), and the getters each of
\* them reads to build it
LazyGetters(owner) ==
    CASE owner = "local" ->
           [dataLength |-> <<"data">>, filterFields |-> <<"filtering">>,
            hasGrouping |-> <<"grouping">>, inFirstPage |-> <<"page">>,
            inLastPage |-> <<"pagesCount", "page">>,
            pagesCount |-> <<"dataLength", "rowsPerPage">>]
      [] owner = "remote" ->
           [inFirstPage |-> <<"page">>, inLastPage |-> <<"pagesCount", "page">>,
            pagesCount |-> <<"totalCount", "rowsPerPage">>]
      [] owner = "pager" ->
           [inFirstPage |-> <<"page">>, inLastPage |-> <<"pagesCount", "page">>,
            pagerSourceArray |-> <<"pagesCount">>]
      [] OTHER -> <<>>

\* the views the constructor registers after liftFromDataSubject, in its
\* order, and the getters it reads to build each
ConstructorViews(owner) ==
    IF owner = "local"
    THEN << [view |-> "workSource",
             reads |-> <<"data", "rowsPerPage", "page", "filtering", "sorting">>],
            [view |-> "groupingSource", reads |-> <<"workSource", "grouping">>],
            [view |-> "pagingSource", reads |-> <<"pagesCount", "page">>] >>
    ELSE <<>>

\* the getters of an object: every other getter is return stateMap.get(name)
Getters(owner) ==
    StateKeys(owner) \cup DOMAIN LazyGetters(owner)
      \cup { ConstructorViews(owner)[i].view : i \in 1 .. Len(ConstructorViews(owner)) }
      \cup (IF owner = "pager" THEN {"pagesCount"} ELSE {})

\* a call of the getter of view on a stateMap that holds the names held: the
\* names it holds afterwards, and whether stateMap.get threw
RECURSIVE readView(_, _, _), readAll(_, _, _, _)
readAll(held, owner, views, i) ==
    IF i > Len(views) THEN [held |-> held, threw |-> FALSE]
    ELSE LET r == readView(held, owner, views[i])
         IN IF r.threw THEN r ELSE readAll(r.held, owner, views, i + 1)

readView(held, owner, view) ==
    IF view \in DOMAIN LazyGetters(owner) /\ view \notin held
    THEN LET built == readAll(held, owner, LazyGetters(owner)[view], 1)
         IN IF built.threw THEN built
            ELSE [held |-> built.held \cup {view}, threw |-> FALSE]
    ELSE [held |-> held, threw |-> view \notin held]

\* the stateMap when the constructor returns
RECURSIVE wiredByConstructor(_, _, _)
wiredByConstructor(held, owner, i) ==
    IF i > Len(ConstructorViews(owner)) THEN held
    ELSE LET built == readAll(held, owner, ConstructorViews(owner)[i].reads, 1)
         IN wiredByConstructor(built.held \cup {ConstructorViews(owner)[i].view},
                               owner, i + 1)

InitWiring ==
    /\ wired = [owner \in Owners |-> wiredByConstructor(StateKeys(owner), owner, 1)]
    /\ completed = {}
    /\ resolved = <<>>

\* a read of the getter view$ of an object
ReadGetter(owner, view) ==
    /\ LET r == readView(wired[owner], owner, view)
       IN /\ wired' = [wired EXCEPT ![owner] = r.held]
          /\ resolved' = <<[owner |-> owner, view |-> view,
                            open |-> owner \notin completed, threw |-> r.threw]>>
    /\ UNCHANGED completed
    /\ UNCHANGED besidesWiring

\* complete(): stateMap.complete() clears the map
WiringComplete(owner) ==
    /\ wired' = [wired EXCEPT ![owner] = {}]
    /\ completed' = completed \cup {owner}
    /\ resolved' = <<>>
    /\ UNCHANGED besidesWiring

NextWiring ==
    \/ \E owner \in Owners : \E view \in Getters(owner) : ReadGetter(owner, view)
    \/ \E owner \in Owners : WiringComplete(owner)

\* ------------------------------------------------------------------------
\* WarixDataSource
\* ------------------------------------------------------------------------
\* null in a list of property names: item[null] reads the property "null"
NoProperty == "null"

\* the state the constructor builds; the filter stays null (no function)
SourceInit ==
    [data |-> <<>>, rowsPerPage |-> Null, page |-> Null, sorting |-> <<>>,
     multiSort |-> TRUE, unsort |-> TRUE, grouping |-> <<>>, filter |-> Null]

\* the value dataSource$ holds for a snapshot, without its last step
ungroupedSource(sx) ==
    LET sorted == IF Len(sx.sorting) > 0 THEN arrayMultiSort(sx.data, sx.sorting)
                  ELSE sx.data
    IN IF sx.rowsPerPage # Null /\ sx.page # Null
       THEN slice(sorted, sx.rowsPerPage * sx.page, sx.rowsPerPage * (sx.page + 1))
       ELSE sorted

\* buildMappedSource: the value dataSource$ holds for a snapshot
buildMappedSource(sx) ==
    IF Len(sx.grouping) > 0 THEN arrayGroupBy(ungroupedSource(sx), sx.grouping)
    ELSE ungroupedSource(sx)

\* the value hasGrouping$ holds for a snapshot
hasGrouping(sx) == Len(sx.grouping) > 0

\* isGroupedBy(propertyName)
isGroupedBy(sx, propertyName) ==
    \E i \in 1 .. Len(sx.grouping) : sx.grouping[i] = propertyName

\* determineMaxPages(data, rpp)
determineMaxPages(data, rpp) ==
    IF Len(data) = 0 THEN 0 ELSE IF rpp = Null THEN 1 ELSE MathCeil(Len(data), rpp)

\* applyRowsPerPage(value)
applyRowsPerPage(sx, value) ==
    LET rpp == IF value = Null THEN Null ELSE Abs(value)
        max == determineMaxPages(sx.data, rpp)
        cur == sx.page
    IN [sx EXCEPT !.rowsPerPage = rpp,
                  !.page = IF cur = Null THEN Null ELSE IF cur > max THEN max ELSE cur]

\* applyGrouping(...groupingProperties): the rest parameter is the array of
\* the arguments handed in
applyGrouping(sx, groupingProperties) == [sx EXCEPT !.grouping = groupingProperties]

InitSource == sourceState = SourceInit

\* applyData(value): set('data', value), then applyRowsPerPage(rowsPerPage)
SourceApplyData(value) ==
    /\ sourceState' = applyRowsPerPage([sourceState EXCEPT !.data = value],
                                       sourceState.rowsPerPage)
    /\ UNCHANGED besidesSource

\* applyGrouping(...groupingProperties)
SourceApplyGrouping(groupingProperties) ==
    /\ sourceState' = applyGrouping(sourceState, groupingProperties)
    /\ UNCHANGED besidesSource

\* clearGrouping(): applyGrouping(null), one argument
SourceClearGrouping ==
    /\ sourceState' = applyGrouping(sourceState, <<NoProperty>>)
    /\ UNCHANGED besidesSource

NextSource ==
    \/ \E value \in GroupArrays : SourceApplyData(value)
    \/ \E groupingProperties \in GroupNames : SourceApplyGrouping(groupingProperties)
    \/ SourceClearGrouping

\* ------------------------------------------------------------------------
\* Specifications: each follows one object, the other one stays as built
\* ------------------------------------------------------------------------
vars == <<remoteVars, pagerVars, localVars, subjectVars, mapVars, arrayVars, groupVars,
          wiringVars, sourceVars>>

\* the subject is constructed with two primitives
InitPlain ==
    InitSubject /\ subject.fields = [k \in Keys |-> Primitive(1)]

Init == InitRemote /\ InitPager({<<>>}) /\ InitLocal /\ InitPlain /\ InitMap /\ InitArray({<<>>}) /\ InitGroup({<<>>}) /\ InitWiring /\ InitSource

\* the pager over each of the backing sequences
InitBackings == InitRemote /\ InitPager(Backings) /\ InitLocal /\ InitPlain /\ InitMap /\ InitArray({<<>>}) /\ InitGroup({<<>>}) /\ InitWiring /\ InitSource

InitSubjects == InitRemote /\ InitPager({<<>>}) /\ InitLocal /\ InitSubject /\ InitMap /\ InitArray({<<>>}) /\ InitGroup({<<>>}) /\ InitWiring /\ InitSource

Spec == Init /\ [][NextRemote]_vars

SpecVeto == Init /\ [][NextVeto]_vars

\* debounceTime(10): once the stream it listens to has emitted, the timer
\* fires
Fire ==
    \E x \in Results(issued + 1, getRequestParams(remote)), sync \in BOOLEAN :
        DebounceFire(x, sync)

SpecRace == Init /\ [][NextRace]_vars

\* the two data sources under page navigation
SpecNav == Init /\ [][NextNav]_vars

SpecWiring == Init /\ [][NextWiring]_vars

SpecSource == Init /\ [][NextSource]_vars

SpecLive == Init /\ [][NextRemote]_vars /\ WF_vars(Fire)

SpecPager == InitBackings /\ [][NextPager]_vars

SpecLocal == Init /\ [][NextLocal]_vars

SpecTeardown == Init /\ [][NextTeardown]_vars

SpecSubject == InitSubjects /\ [][NextSubject]_vars

SpecMap == Init /\ [][NextMap]_vars

\* the array subject over each of the arrays
InitArrays ==
    /\ InitRemote /\ InitPager({<<>>}) /\ InitLocal /\ InitPlain /\ InitMap
    /\ InitArray(ArraysUpTo(MaxArr)) /\ InitGroup({<<>>}) /\ InitWiring /\ InitSource

SpecArray == InitArrays /\ [][NextArray]_vars

\* arrayGroupBy on each of the arrays
InitGroups ==
    /\ InitRemote /\ InitPager({<<>>}) /\ InitLocal /\ InitPlain /\ InitMap
    /\ InitArray({<<>>}) /\ InitGroup(GroupArrays) /\ InitWiring /\ InitSource

SpecGroup == InitGroups /\ [][NextGroup]_vars

\* ------------------------------------------------------------------------
\* Claims about WarixRemoteDataSource
\* ------------------------------------------------------------------------
\* a step of a mutator (no invocation, no answer arriving)
MutationStep == issued' = issued /\ inflight' = inflight

\* the part of C1 that does not depend on who wrote page last: one
\* invocation per armed timer, none before the window closes, and the
\* sorting, filterValues and take of the state at that time
DebouncedOnce ==
    /\ (issued' # issued =>
          /\ debounce /\ issued' = issued + 1 /\ Len(params') = 1
          /\ (inflight' # inflight => ~debounce')
          /\ params'[1].sorting = remote.sorting.val
          /\ params'[1].filterValues = remote.filterValues.val
          /\ params'[1].take = ToNumber(remote.rowsPerPage))
    /\ (MutationStep /\ combineLatest(remote, remote', FALSE) =>
          debounce' /\ params' = <<>>)

\* C1 as claimed: a burst of mutations made inside one debounce window is
\* followed by exactly one dataRequest invocation, whose params carry the
\* final sorting, filterValues and page of the burst, skip = rowsPerPage*page
\* and take = rowsPerPage.
C1_AsClaimed ==
    [][ /\ DebouncedOnce
        /\ (issued' # issued =>
              /\ params'[1].page = burstPage
              /\ params'[1].skip = ToNumber(remote.rowsPerPage) * ToNumber(burstPage)) ]_vars

\* C1 amended: exactly one invocation per burst; its params carry the final
\* sorting and filterValues and the page stored when the window closes
\* (skip = rowsPerPage*page, take = rowsPerPage), which is the final page of
\* the burst unless the result of an earlier fetch was applied inside the
\* window after the last mutation, in which case it is the page of such a
\* result.
C1_DebounceParams ==
    [][ /\ DebouncedOnce
        /\ (issued' # issued =>
              /\ params'[1].page = remote.page
              /\ params'[1].skip = ToNumber(remote.rowsPerPage) * ToNumber(remote.page)
              /\ (params'[1].page # burstPage =>
                    \E i \in 1 .. issued :
                        i \notin inflight /\ responses[i].page = params'[1].page)) ]_vars

\* an invocation that follows a burst of a sort, a filter and a page mutation
C1_Witness ==
    /\ params # <<>>
    /\ params[1].sorting # <<>> /\ params[1].filterValues # {}
    /\ params[1].page = 1 /\ params[1].rowsPerPage = 1 /\ params[1].skip = 1

\* the snapshot s holds the result x
Holds(s, x) == s.data = x.data /\ s.totalCount = x.totalCount /\ s.page = x.page

\* the step in which the second answer of the pair pr arrives
BothResolved(pr) ==
    /\ pr[1] \notin inflight' /\ pr[2] \notin inflight'
    /\ (pr[1] \in inflight \/ pr[2] \in inflight)

\* C2 as claimed: when two invocations were in flight at once, then once both
\* have resolved, in either order, data, totalCount and page hold the result
\* of the one issued last.
C2_AsClaimed ==
    [][ \A pr \in overlaps : BothResolved(pr) => Holds(remote', responses[pr[2]]) ]_vars

\* C2 amended: once both have resolved, data, totalCount and page hold the
\* result of the invocation that resolved last; that is the one issued last
\* only when the answers arrive in the order of the invocations.
C2_LastResolvedWins ==
    [][ \A pr \in overlaps : BothResolved(pr) =>
          LET last == IF pr[1] \in inflight THEN pr[1] ELSE pr[2]
          IN  Holds(remote', responses[last]) ]_vars

\* two invocations were in flight together, both have resolved, and the
\* state holds the result of the first
C2_Witness ==
    /\ <<1, 2>> \in overlaps /\ inflight = {} /\ issued = 2
    /\ Holds(remote, responses[1])

\* C3: applying a fetch result (also one whose page differs from the page in
\* the state) never arms the debounce timer nor invokes dataRequest; an
\* invocation happens only when the timer was armed, and the timer is armed
\* only by a step that changes filterValues, grouping, page, rowsPerPage or
\* sorting outside the guard.
C3_NoFeedback ==
    [][ /\ (inflight' # inflight /\ issued' = issued =>
              debounce' = debounce /\ params' = <<>>)
        /\ (issued' # issued => debounce /\ ~debounce' /\ Len(params') = 1)
        /\ (~debounce /\ debounce' =>
              MutationStep /\ combineLatest(remote, remote', FALSE)) ]_vars

\* a result with another page than the requested one has been applied and
\* the timer is not armed
C3_Witness ==
    /\ inflight = {} /\ issued = 1 /\ params = <<>>
    /\ remote.data = DataOf(1) /\ remote.page = 0 /\ burstPage = 1
    /\ ~debounce

\* C4 as claimed: when the accept callback of a mutation answers false, every
\* state field keeps the value it had before the call.
C4_AsClaimed == [][ verdict' = "rejected" => remote' = remote ]_vars

\* the step in which the stream of gate i emits once more after its first
\* emission
LaterEmission(i) ==
    /\ Len(gates') = Len(gates)
    /\ gates[i].emitted >= 1
    /\ gates'[i].emitted = gates[i].emitted + 1

\* C5: only the first emission of an accept stream decides the mutation;
\* later emissions of the same stream change none of filterValues, sorting,
\* grouping and page.
C5_SingleShot ==
    [][ \A i \in 1 .. Len(gates) : LaterEmission(i) =>
          /\ remote'.filterValues = remote.filterValues
          /\ remote'.sorting = remote.sorting
          /\ remote'.grouping = remote.grouping
          /\ remote'.page = remote.page ]_vars

\* a stream has emitted twice and the state holds what its first emission
\* accepted
C5_Witness ==
    \E i \in 1 .. Len(gates) :
        /\ gates[i].emitted >= 2
        /\ Same(remote, gates[i].key, gates[i].proposed)

\* ------------------------------------------------------------------------
\* Claims about WarixDataPager
\* ------------------------------------------------------------------------
\* C6 (as claimed): once the fetches of a request(minIndex, maxIndex) with
\* 0 <= minIndex <= maxIndex have completed and no request is outstanding,
\* data is exactly the backing records with indices in [minIndex, maxIndex),
\* cut at the number of records, whatever was requested before.
C6_AsClaimed ==
    (fetches = {} /\ joins = {} /\ pager.lastRequestMinIndex # Null)
        => pager.data = Range(pager.lastRequestMinIndex,
                              MathMin(pager.lastRequestMaxIndex, Len(backing)))

\* C7 (as claimed): when the first fetch that returns fewer than pageSize
\* records is the fetch of page p, eofPage becomes p and eof becomes true.
C7_AsClaimed == eofAt # Null => (pager.eofPage = eofAt /\ eof(pager))

\* the pages of the range of the request() call made by the step
CallPages(c) == indexToPage(c.minIndex) .. indexToPage(c.maxIndex)

C9_AsClaimed ==
    \A i, j \in 1 .. Len(pages) : pages[i].pageIndex = pages[j].pageIndex => i = j

\* C10 (as claimed): loadingCount is the number of callback invocations that
\* have not completed, it is never negative, and isLoading is true exactly
\* while a fetch is in flight.
C10_AsClaimed ==
    /\ pager.loadingCount = Cardinality(fetches)
    /\ pager.loadingCount >= 0
    /\ isLoading(pager) <=> fetches # {}

\* a step of request()
RequestStep == calls' = calls + 1

\* a step of reset(): no request() is made and no fetch answers
ResetStep == calls' = calls /\ fetches' = fetches

\* the pages whose callback the step invokes
Invoked == { f.pageIndex : f \in fetches' \ fetches }

Missing(c) ==
    { q \in CallPages(c) : find(pages, q) = <<>> /\ (eofAt = Null \/ q < eofAt) }

\* C12 (as claimed): a request() whose range spans several pages invokes the
\* callback once for each missing page, all in the step of the call, and a
\* range that needs no fetch resolves to the records of the range in index
\* order.
C12_AsClaimed ==
    [][(RequestStep /\ indexToPage(call'[1].minIndex) < indexToPage(call'[1].maxIndex)) =>
          /\ Invoked = Missing(call'[1])
          /\ Cardinality(fetches' \ fetches) = Cardinality(Invoked)
          /\ (Missing(call'[1]) = {} /\ eofAt = Null) =>
                 pager'.data = Range(call'[1].minIndex,
                                     MathMin(call'[1].maxIndex, Len(backing)))]_vars

\* C13 (as claimed): a request() whose range [minIndex, maxIndex) lies inside
\* one page p, requestPage(p) included, invokes the callback for no page
\* other than p, and at most once.
C13_AsClaimed ==
    [][(RequestStep /\ call'[1].minIndex < call'[1].maxIndex
          /\ indexToPage(call'[1].minIndex) = indexToPage(call'[1].maxIndex - 1)) =>
          /\ Invoked \subseteq {indexToPage(call'[1].minIndex)}
          /\ Cardinality(fetches' \ fetches) <= 1]_vars

\* ------------------------------------------------------------------------
\* Claims about WarixLocalDataSource, checked under SpecLocal
\* ------------------------------------------------------------------------
\* the records of dt that match the filter group, in their order
Matching(dt, filtering) ==
    LET keep(item) == compileGroup(filtering, item)
    IN SelectSeq(dt, keep)

\* the records of dt at the 0-based positions from .. to - 1 that exist
Window(dt, from, to) ==
    LET first == MathMin(from, Len(dt))
        last == MathMin(to, Len(dt))
    IN [i \in 1 .. (last - first) |-> dt[first + i]]

\* the fixed pipeline of a state: sort, then filter, then the page window
Pipeline(s) ==
    LET sorted == arrayMultiSort(s.data, s.sorting)
        kept == IF s.filtering = NilFilter THEN sorted ELSE Matching(sorted, s.filtering)
    IN IF s.rowsPerPage # Null /\ s.page # Null
       THEN Window(kept, s.rowsPerPage * s.page, s.rowsPerPage * (s.page + 1))
       ELSE kept

\* C14: after every mutation of data, filtering, sorting, page and
\* rowsPerPage, the last value workSource$ emitted is the pipeline sort, then
\* filter, then slice [rowsPerPage*page, rowsPerPage*(page+1)) of the state
C14_Pipeline == workSource = Pipeline(local)

\* a state where the order of the three stages shows: the record kept by the
\* filter is on the first page only once the others are filtered away
C14_Witness ==
    /\ local.data = <<Rec(1), Rec(2)>>
    /\ local.sorting = <<[property |-> "x", descending |-> FALSE]>>
    /\ local.filtering # NilFilter
    /\ local.rowsPerPage = 1
    /\ local.page = 0
    /\ workSource = <<Rec(1)>>

\* the pages count of a collection of the given length: 0 when it is empty, 1
\* when rowsPerPage is unset or 0, the least n with n * rowsPerPage >= length
\* otherwise
PagesCountClaimed(length, rowsPerPage) ==
    IF length = 0 THEN 0
    ELSE IF rowsPerPage = Null \/ rowsPerPage = 0 THEN 1
    ELSE CHOOSE n \in 1 .. length :
             n * rowsPerPage >= length /\ (n - 1) * rowsPerPage < length

\* the step was a paging call (paging, the page setter, the rowsPerPage
\* setter) that passed a page
PagingAsked == asked # <<>> /\ asked[1].op = "paging" /\ asked[1].page # Null

\* C15: right after a paging call with a non-nil page the stored page is
\* min(|page|, pagesCount), pagesCount taken from the data length and the new
\* rowsPerPage
C15_ClampToPagesCount ==
    PagingAsked =>
        LET count == PagesCountClaimed(Len(local.data), local.rowsPerPage)
            wanted == Abs(asked[1].page)
        IN /\ local.page = IF wanted < count THEN wanted ELSE count
           /\ 0 <= local.page
           /\ local.page <= count

\* page 3 asked of two records shown one per page: page 2 is stored
C15_Witness ==
    /\ PagingAsked
    /\ Abs(asked[1].page) = 3
    /\ Len(local.data) = 2
    /\ local.rowsPerPage = 1
    /\ local.page = 2

\* C16: right after a paging call the stored page is not negative and not
\* beyond the last valid page index, pagesCount - 1, whenever pagesCount > 0
C16_AsClaimed ==
    (PagingAsked /\ PagesCountClaimed(Len(local.data), local.rowsPerPage) > 0) =>
        /\ 0 <= local.page
        /\ local.page <= PagesCountClaimed(Len(local.data), local.rowsPerPage) - 1

\* C17: whatever the data is replaced by, a non-nil page stays within
\* [0, pagesCount] of the current data
C17_AsClaimed ==
    local.page # Null =>
        /\ 0 <= local.page
        /\ local.page <= PagesCountClaimed(Len(local.data), local.rowsPerPage)

\* C18: in every state the pagesCount getter and the latest value of
\* pagesCount$ are 0 for an empty collection, 1 when rowsPerPage is unset or
\* 0, and ceil(length / rowsPerPage) otherwise
C18_AsClaimed ==
    /\ pagesCount(local) = PagesCountClaimed(Len(local.data), local.rowsPerPage)
    /\ pagesCountLatest(local) = PagesCountClaimed(Len(local.data), local.rowsPerPage)

\* C19: a mutation of the remote data source that sets page or rowsPerPage
\* leaves the stored page within [0, pagesCount], pagesCount taken from the
\* totalCount the server reported and the new rowsPerPage
C19_AsClaimed ==
    [][(/\ MutationStep
        /\ remote.totalCount # Null
        /\ remote'.page # Null
        /\ (remote'.page # remote.page \/ remote'.rowsPerPage # remote.rowsPerPage))
       => /\ 0 <= remote'.page
          /\ remote'.page <= PagesCountClaimed(remote'.totalCount, remote'.rowsPerPage)]_vars

\* the state of a property in a sorting list
DirectionOf(sorting, propertyPath) ==
    IF \E i \in 1 .. Len(sorting) : sorting[i].property = propertyPath /\ sorting[i].descending
    THEN "descending"
    ELSE IF \E i \in 1 .. Len(sorting) : sorting[i].property = propertyPath
         THEN "ascending"
         ELSE "unsorted"

\* the entries of a sorting list that are not about the property
Others(sorting, propertyPath) ==
    LET other(d) == d.property # propertyPath
    IN SelectSeq(sorting, other)

\* the step was toggleSort(propertyPath)
ToggleStep(propertyPath) ==
    asked' = <<[op |-> "toggleSort", page |-> Null, property |-> propertyPath]>>

\* C20: toggleSort(x) moves x from unsorted to ascending, from ascending to
\* descending, and from descending to unsorted when allowUnsort is true or to
\* ascending when it is false; with multiSort the entries of the other
\* properties stay as they were
C20_ToggleCycle ==
    [][\A x \in Properties : ToggleStep(x) =>
          /\ DirectionOf(local.sorting, x) = "unsorted"
                => DirectionOf(local'.sorting, x) = "ascending"
          /\ DirectionOf(local.sorting, x) = "ascending"
                => DirectionOf(local'.sorting, x) = "descending"
          /\ (DirectionOf(local.sorting, x) = "descending" /\ local.allowUnsort)
                => DirectionOf(local'.sorting, x) = "unsorted"
          /\ (DirectionOf(local.sorting, x) = "descending" /\ ~local.allowUnsort)
                => DirectionOf(local'.sorting, x) = "ascending"
          /\ Len(local'.sorting) - Len(Others(local'.sorting, x)) <= 1
          /\ local.multiSort => Others(local'.sorting, x) = Others(local.sorting, x)]_vars

\* toggleSort("x") has just removed x from a list that keeps its entry of y
C20_Witness ==
    /\ asked = <<[op |-> "toggleSort", page |-> Null, property |-> "x"]>>
    /\ local.allowUnsort
    /\ local.multiSort
    /\ DirectionOf(local.sorting, "x") = "unsorted"
    /\ DirectionOf(local.sorting, "y") = "descending"

\* C21: a sort added while multiSort is false leaves the list equal to the
\* single new definition, whatever the list held before
C21_AsClaimed ==
    [][\A x \in Properties :
          (ToggleStep(x) /\ ~local.multiSort /\ DirectionOf(local'.sorting, x) # "unsorted")
              => (Len(local'.sorting) = 1 /\ local'.sorting[1].property = x)]_vars

\* C22: from the empty list, sortByAsc, sortByDesc, toggleSort, removeSorting,
\* clearSorting and changes of the flags leave at most one entry per property
C22_OneEntryPerProperty ==
    \A i, j \in 1 .. Len(local.sorting) :
        local.sorting[i].property = local.sorting[j].property => i = j

\* a list of two entries, built with multiSort, after multiSort was switched
\* off and a property of the list was toggled
C22_Witness ==
    /\ Len(local.sorting) = 2
    /\ ~local.multiSort
    /\ asked # <<>>
    /\ asked[1].op = "toggleSort"

\* C26: complete() may be called again, and after the first complete()
\* every mutator call returns (the state it reads and writes is still there)
\* and no view obtained before emits again
C26_SilentAfterComplete ==
    [][isStopped => (isStopped' /\ latest' = latest /\ workSource' = workSource)]_vars

\* after complete() the data setter and paging were accepted: the state
\* holds the new values and the views still hold the old ones
C26_Witness ==
    /\ isStopped
    /\ Len(local.data) = 2
    /\ local.page = 1
    /\ latest.data = <<>>
    /\ latest.page = Null
    /\ workSource = <<>>
    /\ asked # <<>>

\* ------------------------------------------------------------------------
\* Claims about WarixDataSubject, checked under SpecSubject
\* ------------------------------------------------------------------------
\* the keys the call of the step named
Named(o) == DOMAIN o[1].value

\* C23: the view of a key emits only when the value under the key is another
\* reference than the one before; a set or patch that stores the current
\* reference under the key, or that names other keys only, does not make the
\* view emit
C23_ViewPerKey ==
    [][\A k \in Keys :
          /\ k \in fired' => pluck(subject'.fields, k) # pluck(subject.fields, k)
          /\ (/\ op'[1].name \in {"set", "patch"}
              /\ (k \in Named(op') => op'[1].value[k] = pluck(subject.fields, k)))
             => k \notin fired']_vars

\* set("a", o) with the object o that "a" already held: no view emitted
C23_Witness ==
    /\ op # <<>>
    /\ op[1].name = "set"
    /\ Named(op) = {"a"}
    /\ op[1].value["a"].ref > 0
    /\ subject.fields["a"] = op[1].value["a"]
    /\ fired = {}

\* C24: set, patch and deleteKey emit a new mapping, every field the call
\* did not name keeps its value by identity, and the views of those fields
\* do not emit
C24_AsClaimed ==
    [][/\ subject'.id # subject.id
       /\ \A k \in Keys \ Named(op') :
              /\ pluck(subject'.fields, k) = pluck(subject.fields, k)
              /\ k \notin fired']_vars

\* ------------------------------------------------------------------------
\* Claims about WarixDataMap, checked under SpecMap
\* ------------------------------------------------------------------------
\* C25: a view registered under a name stays the view get(name) returns
\* whatever is set under the name later, and the getter of a lazily built
\* view returns the view its first call returned
C25_FirstWriteWins ==
    [][/\ \A n \in Names : has(cache, n) => (has(cache', n) /\ cache'[n] = cache[n])
       /\ \A n \in Names : (got' # <<>> /\ got'[1].name = n /\ firstGot[n] # Null)
                               => got'[1].view = firstGot[n]]_vars

\* the getter of pagesCount$ was called again after callers tried to set
\* other observables under its name, and returned the view it built first
C25_Witness ==
    /\ firstGot["pagesCount"] = Constructed(2)
    /\ got = <<[name |-> "pagesCount", view |-> Constructed(2)]>>
    /\ has(cache, "inLastPage")
    /\ cache["inLastPage"] \in Observables

\* ------------------------------------------------------------------------
\* Claims about the array operations
\* ------------------------------------------------------------------------
\* C27: whatever operation was called, the new array has as many items as
\* the old one, plus the added items, minus the removed items.
C27_LengthIdentity ==
    \A i \in 1 .. Len(details) :
        Len(details[i].newValue) =
            Len(details[i].oldValue) + Len(details[i].addedItems)
                - Len(details[i].removedItems)

\* a setAt in the middle of an array: one item removed, one added
C27_Witness ==
    /\ details # <<>>
    /\ details[1].name = "setAt"
    /\ Len(details[1].oldValue) = MaxArr
    /\ Len(details[1].addedItems) = 1
    /\ Len(details[1].removedItems) = 1

\* the operation made no net change, in one of the ways an operation can
NoNetChange(d) ==
    \/ d.name \in {"push", "unshift", "insert"} /\ d.given = 0
    \/ d.name = "removeAt" /\ d.given <= 0
    \/ d.name \in {"pop", "shift"} /\ d.oldValue = <<>>
    \/ d.name \in {"remove", "removeWhere", "distinct"} /\ d.removedItems = <<>>
    \/ d.name \in {"sort", "reverse"} /\ d.newValue = d.oldValue

\* C28: an operation that makes no net change hands the old array back, with
\* no added, removed or shifted items, and the array subject emits nothing.
C28_AsClaimed ==
    \A i \in 1 .. Len(details) :
        NoNetChange(details[i]) =>
            /\ details[i].sameRef
            /\ details[i].addedItems = <<>>
            /\ details[i].removedItems = <<>>
            /\ details[i].shiftedItems = <<>>
            /\ ~announced

\* the descriptor x of the change d names an item that was at oldIndex, is
\* at newIndex, and the two differ
Describes(d, x) ==
    /\ x.oldIndex \in 0 .. Len(d.oldValue) - 1
    /\ x.newIndex \in 0 .. Len(d.newValue) - 1
    /\ d.oldValue[x.oldIndex + 1] = x.item
    /\ d.newValue[x.newIndex + 1] = x.item
    /\ x.oldIndex # x.newIndex

\* the 0-based positions of the new array that hold an item that was in the
\* old array, but not at that position
Displaced(d) ==
    { p \in 0 .. Len(d.newValue) - 1 :
        /\ \A k \in 1 .. Len(d.addedItems) : d.addedItems[k].index # p
        /\ \/ p >= Len(d.oldValue)
           \/ d.oldValue[p + 1] # d.newValue[p + 1] }

\* C29: the shifted items of a change are one descriptor for each surviving
\* item whose position changed and none for the others; every descriptor has
\* oldValue[oldIndex] = item = newValue[newIndex] and oldIndex # newIndex.
C29_AsClaimed ==
    \A i \in 1 .. Len(details) :
        LET d == details[i]
        IN /\ \A k \in 1 .. Len(d.shiftedItems) : Describes(d, d.shiftedItems[k])
           /\ \A k, l \in 1 .. Len(d.shiftedItems) :
                  d.shiftedItems[k].newIndex = d.shiftedItems[l].newIndex => k = l
           /\ \A p \in Displaced(d) :
                  \E k \in 1 .. Len(d.shiftedItems) : d.shiftedItems[k].newIndex = p

\* the 1-based position of the first item of the array whose prop is v
firstAt(ax, prop, v) ==
    CHOOSE i \in 1 .. Len(ax) :
        ax[i][prop] = v /\ \A j \in 1 .. i - 1 : ax[j][prop] # v

\* C30: arrayGroupBy of a non-empty array by one property gives one node per
\* value of the property, in the order the values first appear in the array;
\* the items of a node are the items of the array with that value, in the
\* order of the array, so that each item is in exactly one node. An empty
\* array or an empty list of properties gives one node, with groupedBy null,
\* whose items are the array.
C30_GroupByPartitions ==
    \A t \in 1 .. Len(tree) :
        LET names == tree[t].names
            nodes == tree[t].nodes
        IN /\ (Len(ungrouped) = 0 \/ Len(names) = 0) =>
                nodes = <<[groupedBy |-> Null, groupedByValue |-> Null, items |-> ungrouped]>>
           /\ (Len(ungrouped) > 0 /\ Len(names) = 1) =>
                LET p == names[1]
                    inNode(k, item) == item[p] = nodes[k].groupedByValue
                IN /\ \A k \in 1 .. Len(nodes) :
                          LET ofNode(item) == inNode(k, item)
                          IN /\ nodes[k].groupedBy = p
                             /\ nodes[k].items # <<>>
                             /\ nodes[k].items = SelectSeq(ungrouped, ofNode)
                   /\ \A i \in 1 .. Len(ungrouped) :
                          Cardinality({ k \in 1 .. Len(nodes) : inNode(k, ungrouped[i]) }) = 1
                   /\ \A k, l \in 1 .. Len(nodes) :
                          k < l => firstAt(ungrouped, p, nodes[k].groupedByValue)
                                       < firstAt(ungrouped, p, nodes[l].groupedByValue)

\* three items grouped by a property that the first and the last share
C30_Witness ==
    /\ tree # <<>>
    /\ tree[1].names = <<"y">>
    /\ Len(ungrouped) = 3
    /\ Len(tree[1].nodes) = 2
    /\ Len(tree[1].nodes[1].items) = 2
    /\ tree[1].nodes[1].items = <<ungrouped[1], ungrouped[3]>>
    /\ ungrouped[1] # ungrouped[3]

\* ------------------------------------------------------------------------
\* Further claims about WarixRemoteDataSource
\* ------------------------------------------------------------------------
\* what the field holds once the accept callback has answered x to the
\* proposal newValue: the proposal for true and when no callback is set, the
\* answer when it is a value, what it held for false and nil and as long as
\* there is no answer
Adopted(s, key, newValue, x) ==
    IF x.kind = "none" \/ (x.kind = "bool" /\ x.b) THEN newValue
    ELSE IF x.kind = "value" THEN x.v
    ELSE s[key]

\* the step is a mutation of key with the proposal newValue, answered by x
Answered(s, key, newValue, x) ==
    IF Same(s, key, newValue)
    THEN remote'[key] = s[key] /\ gates' = gates /\ verdict' = "none"
    ELSE remote'[key] = Adopted(s, key, newValue, x)

\* C31: an accept callback that answers true, and no callback, adopt the
\* proposal; an answer that is neither a boolean nor nil is adopted in its
\* place, at once or when the stream emits it; false and nil leave the field
\* as it is; a proposal that is the current value asks no callback and
\* changes nothing.
C31_AcceptResult ==
    [][ /\ \A v \in FilterObjs \cup {remote.filterValues}, x \in Answers(FilterObjs) :
              SetFilterValues(v, x) =>
                  /\ Answered(remote, "filterValues", v, x)
                  /\ Same(remote, "filterValues", v) => remote' = remote
        /\ \A v \in GroupObjs \cup {remote.grouping}, x \in Answers(GroupObjs) :
              SetGrouping(v, x) =>
                  /\ Answered(remote, "grouping", v, x)
                  /\ Same(remote, "grouping", v) => remote' = remote
        /\ \A v \in SortObjs \cup {remote.sorting}, x \in Answers(SortObjs) :
              SetSorting(v, x) =>
                  /\ Answered(remote, "sorting", v, x)
                  /\ Same(remote, "sorting", v) => remote' = remote
        /\ \A rpp \in RppInputs, pg \in PageInputs, x \in Answers(0 .. MaxPage) :
              paging(rpp, pg, x) => Answered(remote, "page", Abs(ToNumber(pg)), x)
        /\ \A i \in 1 .. Len(gates) : \A x \in Emissions(ValuesOf(gates[i].key)) :
              (GateEmit(i, x) /\ gates[i].emitted = 0) =>
                  remote'[gates[i].key] = Adopted(remote, gates[i].key, gates[i].proposed, x)
      ]_vars

\* a stream has answered a proposal with another value, and the state holds
\* the answer
C31_Witness ==
    \E i \in 1 .. Len(gates) :
        /\ gates[i].emitted = 1
        /\ gates[i].key = "filterValues"
        /\ remote.filterValues.ref \notin {"f0", gates[i].proposed.ref}

\* one of the five fields the request depends on differs between s and t
Requested(s, t) ==
    \E key \in {"filterValues", "grouping", "page", "rowsPerPage", "sorting"} :
        distinctUntilChanged(key, s, t)

\* C32: a change the caller makes to filterValues, grouping, page,
\* rowsPerPage or sorting arms the timer, and an armed timer leads to an
\* invocation of dataRequest; the params of an invocation are the five fields
\* of the state at the time of the invocation, with skip and take; the
\* result of an invocation replaces data and totalCount when it arrives.
C32_EventuallyRequested ==
    /\ [][ (Mutators(FALSE) /\ Requested(remote, remote')) => debounce' ]_vars
    /\ (debounce /\ issued < MaxRequests) ~> (params # <<>>)
    /\ [][ params' # <<>> =>
              /\ issued' = issued + 1
              /\ params'[1].filterValues = remote.filterValues.val
              /\ params'[1].grouping = remote.grouping.val
              /\ params'[1].page = remote.page
              /\ params'[1].rowsPerPage = remote.rowsPerPage
              /\ params'[1].sorting = remote.sorting.val
              /\ (issued' \notin inflight') =>
                     /\ remote'.data = responses'[issued'].data
                     /\ remote'.totalCount = responses'[issued'].totalCount ]_vars
    /\ [][ \A i \in inflight : FetchResolve(i) =>
              /\ remote'.data = responses[i].data
              /\ remote'.totalCount = responses[i].totalCount ]_vars

\* dataRequest was invoked with the sorting and the page the caller set, and
\* its answer has arrived
C32_Witness ==
    /\ issued = MaxRequests
    /\ inflight = {}
    /\ remote.sorting.ref = "s1"
    /\ remote.rowsPerPage = 1
    /\ remote.data = DataOf(MaxRequests)
    /\ remote.totalCount = TotalOf(MaxRequests)

\* the properties a sorting list or a grouping list names, the keys a filter
\* object holds
Mentions(key, val) ==
    CASE key = "sorting" -> { val[k].property : k \in 1 .. Len(val) }
      [] key = "grouping" -> { val[k] : k \in 1 .. Len(val) }
      [] key = "filterValues" -> { p[1] : p \in val }

\* C33: when the accept streams of two calls of sortByAsc (or of addGrouping,
\* or of addFilter) are pending together and both answer true, the list
\* names what both calls added once the second has answered, whichever
\* answers first.
C33_AsClaimed ==
    [][ \A i, j \in 1 .. Len(gates) :
          ( /\ i # j
            /\ gates[i].key = gates[j].key
            /\ gates[i].emitted >= 1
            /\ Same(remote, gates[i].key, gates[i].proposed)
            /\ gates[j].emitted = 0
            /\ GateEmit(j, AnsBool(TRUE)) ) =>
          Mentions(gates[i].key, gates[i].proposed.val)
              \subseteq Mentions(gates[i].key, remote'[gates[i].key].val) ]_vars

\* ------------------------------------------------------------------------
\* Further claims about WarixDataPager
\* ------------------------------------------------------------------------
\* C34: a fetch that was in flight when reset() was called and completes
\* after it puts no page into the cache, sets no EOF marker and leaves data
\* as it is, so that no request made after the reset is answered from it.
C34_AsClaimed ==
    [][ \A f \in stale : FetchComplete(f) =>
          /\ pages' = pages
          /\ pager'.eofPage = pager.eofPage
          /\ pager'.eofIndex = pager.eofIndex
          /\ pager'.data = pager.data ]_vars

\* C35: once EOF was detected at page p, a request() whose range lies inside
\* a page q < p that is in the cache starts no fetch and resolves to the
\* records of that page.
C35_AsClaimed ==
    [][ \A minIndex \in 0 .. MaxIndex : \A maxIndex \in minIndex .. MaxIndex :
          LET q == indexToPage(minIndex)
          IN ( /\ eofAt # Null
               /\ indexToPage(maxIndex) = q
               /\ q < eofAt
               /\ find(pages, q) # <<>>
               /\ request(minIndex, maxIndex) ) =>
             /\ fetches' = fetches
             /\ pager'.data = pageDataSlice(find(pages, q)[1].data, minIndex, maxIndex, q) ]_vars

\* ------------------------------------------------------------------------
\* Further claims about WarixLocalDataSource
\* ------------------------------------------------------------------------
\* C36: a paging call that changes rowsPerPage and page makes workSource$
\* emit once, and what workSource$ emits is the pipeline result of the state
\* after the call, never of the new rowsPerPage with the old page.
C36_AsClaimed ==
    [][ \A rowsPerPage \in LocalRppInputs, page \in LocalPageInputs :
          ( /\ LocalPaging(rowsPerPage, page)
            /\ local'.rowsPerPage # local.rowsPerPage
            /\ local'.page # local.page ) =>
          workSourceEmits(1, local, local', latest) = <<constructWorkSource(ViewsOf(local'))>>
      ]_vars

\* ------------------------------------------------------------------------
\* Claims about page navigation
\* ------------------------------------------------------------------------
\* page is a number in [0, max(pagesCount - 1, 0)]
InRange(page, count) ==
    /\ page # Null
    /\ 0 <= page
    /\ page <= (IF minusOne(count) > 0 THEN minusOne(count) ELSE 0)

\* page is the last page, max(pagesCount - 1, 0)
OnLastPage(page, count) ==
    page = (IF minusOne(count) > 0 THEN minusOne(count) ELSE 0)

RemoteGoTo ==
    RemoteGoToFirstPage \/ RemoteGoToLastPage \/ RemoteGoToNextPage \/ RemoteGoToPreviousPage

LocalGoTo ==
    LocalGoToFirstPage \/ LocalGoToLastPage \/ LocalGoToNextPage \/ LocalGoToPreviousPage

\* the part of the claim that is about the local data source
LocalStaysInRange ==
    [][ /\ (InRange(local.page, pagesCount(local)) /\ LocalGoTo) =>
              InRange(local'.page, pagesCount(local'))
        /\ ( /\ OnLastPage(local.page, pagesCount(local))
             /\ LocalGoToNextPage ) => local' = local
        /\ (local.page = 0 /\ LocalGoToPreviousPage) => local' = local
      ]_vars

\* C37: from a state with page in [0, max(pagesCount - 1, 0)], a call of
\* goToFirstPage, goToLastPage, goToNextPage or goToPreviousPage, on the
\* local data source and on the remote one without accept callback, leaves
\* page in [0, max(pagesCount - 1, 0)]; goToNextPage on the last page and
\* goToPreviousPage on page 0 change nothing
C37_AsClaimed ==
    [][ /\ (InRange(remote.page, remotePagesCount(remote)) /\ RemoteGoTo) =>
              InRange(remote'.page, remotePagesCount(remote'))
        /\ ( /\ OnLastPage(remote.page, remotePagesCount(remote))
             /\ RemoteGoToNextPage ) => remote' = remote
        /\ (remote.page = 0 /\ RemoteGoToPreviousPage) => remote' = remote
        /\ (InRange(local.page, pagesCount(local)) /\ LocalGoTo) =>
              InRange(local'.page, pagesCount(local'))
        /\ ( /\ OnLastPage(local.page, pagesCount(local))
             /\ LocalGoToNextPage ) => local' = local
        /\ (local.page = 0 /\ LocalGoToPreviousPage) => local' = local
      ]_vars

\* ------------------------------------------------------------------------
\* Claims about the stateMap wiring
\* ------------------------------------------------------------------------
\* the getters the claim names
ClaimedViews ==
    {"data", "page", "rowsPerPage", "pagesCount", "inFirstPage", "inLastPage",
     "pagerSourceArray", "workSource", "groupingSource", "pagingSource"}

\* C38: before complete(), a read of data$, page$, rowsPerPage$, pagesCount$,
\* inFirstPage$, inLastPage$, pagerSourceArray$, workSource$, groupingSource$
\* or pagingSource$ of a data source or operator that exposes it resolves to
\* a registered view: stateMap.get does not throw
C38_AsClaimed ==
    \A i \in 1 .. Len(resolved) :
        (resolved[i].open /\ resolved[i].view \in ClaimedViews) => ~resolved[i].threw

\* what does hold: the only reads that throw before complete() are those of
\* pagesCount$, inLastPage$ and pagerSourceArray$ of the pager operator
OnlyThePagerOperatorThrows ==
    \A i \in 1 .. Len(resolved) :
        (resolved[i].open /\ resolved[i].threw) =>
            /\ resolved[i].owner = "pager"
            /\ resolved[i].view \in {"pagesCount", "inLastPage", "pagerSourceArray"}

\* ------------------------------------------------------------------------
\* Claims about WarixDataSource
\* ------------------------------------------------------------------------
\* C40: after clearGrouping(), whatever the grouping was, the grouping list
\* is empty, hasGrouping$ holds false, isGroupedBy(p) is false for every
\* property p and dataSource$ holds the flat list of records
C40_AsClaimed ==
    [][ SourceClearGrouping =>
          /\ sourceState'.grouping = <<>>
          /\ ~hasGrouping(sourceState')
          /\ \A p \in Properties : ~isGroupedBy(sourceState', p)
          /\ buildMappedSource(sourceState') = ungroupedSource(sourceState')
      ]_vars

\* what does hold after clearGrouping(): no property of the records is
\* grouped by
NoRecordPropertyGrouped ==
    [][ SourceClearGrouping => \A p \in Properties : ~isGroupedBy(sourceState', p) ]_vars

\* ------------------------------------------------------------------------
\* Claims about arrayShuffle
\* ------------------------------------------------------------------------
\* the number of times v occurs in items
Occurrences(items, v) == Cardinality({ i \in 1 .. Len(items) : items[i] = v })

\* the entries of the array in the order a permutation puts them
Permuted(entries, order) == [i \in 1 .. Len(entries) |-> entries[order[i]]]

\* C39: arrayShuffle returns a permutation of its input (the same items with
\* the same multiplicities, the same length), and on the n items of an array
\* the sequences of index draws and the permutations of the n positions
\* correspond one to one: two different sequences of draws give different
\* orders, and every order is given by a sequence of draws
C39_ShuffleUnbiased ==
    /\ \A i \in 1 .. Len(details) :
           details[i].name = "shuffle" =>
               /\ Len(details[i].newValue) = Len(details[i].oldValue)
               /\ \A v \in Items :
                      Occurrences(details[i].newValue, v) = Occurrences(details[i].oldValue, v)
    /\ LET n == Len(array.val)
           entries == mapped(array.val)
       IN /\ \A c1 \in RandomIndices(n) : \A c2 \in RandomIndices(n) :
                 c1 # c2 => fnShuffle(entries, c1, n) # fnShuffle(entries, c2, n)
          /\ \A order \in Orders(n) : \E c \in RandomIndices(n) :
                 fnShuffle(entries, c, n) = Permuted(entries, order)

\* a shuffle of an array of MaxArr items, two of them equal, that moved items
C39_Witness ==
    /\ details # <<>>
    /\ details[1].name = "shuffle"
    /\ Len(details[1].oldValue) = MaxArr
    /\ details[1].newValue # details[1].oldValue
    /\ \E i, j \in 1 .. MaxArr : i # j /\ details[1].oldValue[i] = details[1].oldValue[j]

====
